---- MODULE Spec2Model ----
(***************************************************************************)
(* Identity resolution of prospect-report identities against the MLBAM     *)
(* people spine (src/build/build_identity_map_fgid_to_mlbamid.py) and the  *)
(* text helpers it imports (src/utils/text.py).                            *)
(*                                                                         *)
(* A Python str is a sequence of one-character strings, so that the        *)
(* normalisers, splitters and parsers compute on characters as the code    *)
(* does.  "" is << >>.  An Optional value is << >> for None and <<v>> for  *)
(* a value v; an Optional[date] is << >> or the triple <<y, m, d>>.        *)
(***************************************************************************)
EXTENDS Integers, Sequences, FiniteSets, TLC

(***************************************************************************)
(* Characters                                                              *)
(***************************************************************************)
Upper == <<"A","B","C","D","E","F","G","H","I","J","K","L","M",
           "N","O","P","Q","R","S","T","U","V","W","X","Y","Z">>

Lower == <<"a","b","c","d","e","f","g","h","i","j","k","l","m",
           "n","o","p","q","r","s","t","u","v","w","x","y","z">>

DigitChars == <<"0","1","2","3","4","5","6","7","8","9">>

\* U+00E9, the one accented letter of the model's alphabet.
EAcute == "e_acute"

\* U+00B2, superscript two: str.isdigit() is True of it and int() raises ValueError.
Sup2 == "sup_2"

Range(f) == {f[k] : k \in DOMAIN f}

UpperSet == Range(Upper)

DigitSet == Range(DigitChars)

\* \w of the re module on str: letters, digits, underscore.
WordCharSet == UpperSet \cup Range(Lower) \cup DigitSet \cup {"_", EAcute, Sup2}

\* str.casefold() and int() on one character.
CasefoldTable == [c \in UpperSet |-> Lower[CHOOSE k \in 1..26 : Upper[k] = c]]

DigitTable == [c \in DigitSet |-> (CHOOSE k \in 1..10 : DigitChars[k] = c) - 1]

IsSpace(c) == c = " "

\* str.isdigit() on one character.
IsDigit(c) == c \in DigitSet \cup {Sup2}

IsWordChar(c) == c \in WordCharSet

DigitVal(c) == DigitTable[c]

CasefoldChar(c) == IF c \in UpperSet THEN CasefoldTable[c] ELSE c

\* Rank of a character in code-point order, for the characters ids are made of.
CharRank(c) == IF c \in DigitSet THEN DigitVal(c) ELSE 10

(***************************************************************************)
(* str methods                                                             *)
(***************************************************************************)
MapChars(F(_), s) == [k \in 1..Len(s) |-> F(s[k])]

Casefold(s) == MapChars(CasefoldChar, s)

\* s.strip(): from the first to the last non-whitespace character.
Strip(s) ==
    LET ks == {k \in 1..Len(s) : ~IsSpace(s[k])}
    IN  IF ks = {} THEN << >>
        ELSE SubSeq(s, CHOOSE k \in ks : \A j \in ks : k <= j, CHOOSE k \in ks : \A j \in ks : k >= j)

\* The pieces of s from position start on, the scan being at position k.
RECURSIVE SplitFrom(_, _, _, _)
SplitFrom(s, sep, start, k) ==
    IF k > Len(s) THEN <<SubSeq(s, start, Len(s))>>
    ELSE IF s[k] = sep THEN <<SubSeq(s, start, k - 1)>> \o SplitFrom(s, sep, k + 1, k + 1)
    ELSE SplitFrom(s, sep, start, k + 1)

\* s.split(sep) for a one-character sep: the pieces between separators, empty ones kept.
SplitOn(s, sep) == SplitFrom(s, sep, 1, 1)

\* s.split(sep, 1)[0]
SplitFirst(s, sep) == SplitOn(s, sep)[1]

\* s.split(): the maximal runs of non-whitespace.
SplitWs(s) == SelectSeq(SplitOn(s, " "), LAMBDA t : t # << >>)

RECURSIVE JoinWith(_, _)
JoinWith(toks, sep) ==
    IF toks = << >> THEN << >>
    ELSE IF Len(toks) = 1 THEN toks[1]
    ELSE toks[1] \o sep \o JoinWith(Tail(toks), sep)

IsDigitStr(s) == s # << >> /\ \A k \in 1..Len(s) : IsDigit(s[k])

\* int(s) raises ValueError, for an s that str.isdigit() accepted.
IntRaises(s) == \E k \in 1..Len(s) : s[k] \notin DigitSet

RECURSIVE ToInt(_)
ToInt(s) == IF s = << >> THEN 0 ELSE 10 * ToInt(SubSeq(s, 1, Len(s) - 1)) + DigitVal(s[Len(s)])

RECURSIVE IntToStr(_)
IntToStr(n) == IF n < 10 THEN <<DigitChars[n + 1]>> ELSE IntToStr(n \div 10) \o <<DigitChars[(n % 10) + 1]>>

\* a < b in the order of str (code point by code point, a proper prefix first).
RECURSIVE StrLess(_, _)
StrLess(a, b) ==
    IF b = << >> THEN FALSE
    ELSE IF a = << >> THEN TRUE
    ELSE IF Head(a) = Head(b) THEN StrLess(Tail(a), Tail(b))
    ELSE CharRank(Head(a)) < CharRank(Head(b))

\* sorted(S) for a set S of str.
RECURSIVE SortedSeq(_)
SortedSeq(S) ==
    IF S = {} THEN << >>
    ELSE LET m == CHOOSE x \in S : \A y \in S \ {x} : StrLess(x, y)
         IN  <<m>> \o SortedSeq(S \ {m})

None == << >>

Some(v) == <<v>>

(***************************************************************************)
(* src/utils/text.py                                                       *)
(***************************************************************************)
Str_jr == <<"j","r">>
Str_sr == <<"s","r">>
Str_ii == <<"i","i">>
Str_iii == <<"i","i","i">>
Str_iv == <<"i","v">>
Str_v == <<"v">>
Str_vi == <<"v","i">>

\* The suffix set without "vi".
_SUFFIXES_without_vi == {Str_jr, Str_sr, Str_ii, Str_iii, Str_iv, Str_v}

_SUFFIXES == {Str_jr, Str_sr, Str_ii, Str_iii, Str_iv, Str_v, Str_vi}

norm_space(s) == JoinWith(SplitWs(Strip(s)), <<" ">>)

\* DropSuffixes popping one suffix token at most.
DropSuffixes_once(toks) ==
    IF toks # << >> /\ toks[Len(toks)] \in _SUFFIXES
    THEN SubSeq(toks, 1, Len(toks) - 1)
    ELSE toks

\* while toks and toks[-1] in _SUFFIXES: toks.pop()
RECURSIVE DropSuffixes(_)
DropSuffixes(toks) ==
    IF toks # << >> /\ toks[Len(toks)] \in _SUFFIXES
    THEN DropSuffixes(SubSeq(toks, 1, Len(toks) - 1))
    ELSE toks

\* re.sub(r"[^\w\s]", " ", base)
PunctToSpace(s) == MapChars(LAMBDA c : IF IsWordChar(c) \/ IsSpace(c) THEN c ELSE " ", s)

normalize_person_name_for_match(s) ==
    LET base == PunctToSpace(Casefold(norm_space(s)))
        toks == SplitWs(base)
    IN  JoinWith(DropSuffixes(toks), <<" ">>)

\* The pair (first, last).
split_first_last_person(full_name) ==
    LET toks == SplitWs(normalize_person_name_for_match(full_name))
    IN  IF toks = << >> THEN << << >>, << >> >>
        ELSE IF Len(toks) = 1 THEN <<toks[1], << >> >>
        ELSE <<JoinWith(SubSeq(toks, 1, Len(toks) - 1), <<" ">>), toks[Len(toks)]>>

(***************************************************************************)
(* src/build/build_identity_map_fgid_to_mlbamid.py: helpers                *)
(***************************************************************************)
\* NFKD decomposition, combining marks dropped.
strip_accents(s) == MapChars(LAMBDA c : IF c = EAcute THEN "e" ELSE c, s)

\* The module's own norm_text: norm_space (imported as _norm_text_base) of strip_accents.
norm_text(s) == norm_space(strip_accents(s))

split_first_last(full_name) ==
    LET toks == SplitWs(norm_text(full_name))
    IN  IF toks = << >> THEN << << >>, << >> >>
        ELSE IF Len(toks) = 1 THEN <<toks[1], << >> >>
        ELSE <<JoinWith(SubSeq(toks, 1, Len(toks) - 1), <<" ">>), toks[Len(toks)]>>

IsLeap(y) == (y % 4 = 0) /\ ((y % 100 # 0) \/ (y % 400 = 0))

DaysInMonth(y, m) ==
    IF m = 2 THEN (IF IsLeap(y) THEN 29 ELSE 28)
    ELSE IF m \in {4, 6, 9, 11} THEN 30 ELSE 31

\* datetime.date(y, m, d) raises ValueError outside these ranges.
ValidDate(y, m, d) ==
    /\ y >= 1 /\ y <= 9999
    /\ m >= 1 /\ m <= 12
    /\ d >= 1 /\ d <= DaysInMonth(y, m)

RECURSIVE DaysBeforeMonth(_, _)
DaysBeforeMonth(y, m) == IF m <= 1 THEN 0 ELSE DaysBeforeMonth(y, m - 1) + DaysInMonth(y, m - 1)

\* date.toordinal(): the difference of two ordinals is (a - b).days.
Ordinal(dt) ==
    LET y1 == dt[1] - 1
    IN  y1 * 365 + (y1 \div 4) - (y1 \div 100) + (y1 \div 400) + DaysBeforeMonth(dt[1], dt[2]) + dt[3]

Abs(n) == IF n < 0 THEN 0 - n ELSE n

parse_date_ymd(s0) ==
    LET s == Strip(s0) IN
    IF s = << >> THEN None
    ELSE LET parts == SplitOn(SplitFirst(s, "T"), "-") IN
         IF Len(parts) < 3 THEN None
         ELSE LET y == Strip(parts[1])
                  m == Strip(parts[2])
                  d == Strip(parts[3])
              IN  IF ~(IsDigitStr(y) /\ IsDigitStr(m) /\ IsDigitStr(d)) THEN None
                  ELSE IF IntRaises(y) \/ IntRaises(m) \/ IntRaises(d) THEN None
                  ELSE IF ValidDate(ToInt(y), ToInt(m), ToInt(d))
                       THEN <<ToInt(y), ToInt(m), ToInt(d)>>
                       ELSE None

\* f"{y}-{m}-{d}"
YmdString(y, m, d) == y \o <<"-">> \o m \o <<"-">> \o d

\* [x for x in s.split("|") if x.strip()]
SplitOrgs(s) == SelectSeq(SplitOn(s, "|"), LAMBDA x : Strip(x) # << >>)

\* dict.get(key, default)
DictGet(dct, key, default) == IF key \in DOMAIN dct THEN dct[key] ELSE default

\* dct[key] = val
DictSet(dct, key, val) == [x \in (DOMAIN dct) \cup {key} |-> IF x = key THEN val ELSE dct[x]]

\* The empty dict.
EmptyDict == [x \in {} |-> << >>]

add_to_index(index, key, mlbam_id) ==
    IF mlbam_id = << >> THEN index
    ELSE DictSet(index, key, Append(DictGet(index, key, << >>), mlbam_id))

\* unique_or_none counting the entries of the list, not its distinct ids.
unique_or_none_per_entry(ids) ==
    IF ids = << >> THEN None
    ELSE IF Len(ids) = 1 THEN Some(ids[1]) ELSE None

\* unique_or_none taking the first id of the sorted set however many there are.
unique_or_none_first(ids) ==
    IF ids = << >> THEN None ELSE Some(SortedSeq(Range(ids))[1])

unique_or_none(ids) ==
    IF ids = << >> THEN None
    ELSE LET u == SortedSeq(Range(ids))
         IN  IF Len(u) = 1 THEN Some(u[1]) ELSE None

TOLERANCE_DAYS == 45

\* The hits list of tie_break_by_estimated_dob, << >> when dob_est does not parse.
EstDobHits(cand_ids, ident_dob_est_ymd, dobs, tolerance_days) ==
    LET dob_est == parse_date_ymd(ident_dob_est_ymd) IN
    IF dob_est = None THEN << >>
    ELSE SortedSeq({cid \in Range(cand_ids) :
             /\ DictGet(dobs, cid, None) # None
             /\ Abs(Ordinal(DictGet(dobs, cid, None)) - Ordinal(dob_est)) <= tolerance_days})

\* tie_break_by_estimated_dob returning the first hit however many there are.
tie_break_by_estimated_dob_first(cand_ids, ident_dob_est_ymd, dobs, tolerance_days) ==
    LET hs == EstDobHits(cand_ids, ident_dob_est_ymd, dobs, tolerance_days)
    IN  IF Len(hs) >= 1 THEN Some(hs[1]) ELSE None

tie_break_by_estimated_dob(cand_ids, ident_dob_est_ymd, dobs, tolerance_days) ==
    LET hs == EstDobHits(cand_ids, ident_dob_est_ymd, dobs, tolerance_days)
    IN  IF Len(hs) = 1 THEN Some(hs[1]) ELSE None

(***************************************************************************)
(* Inputs: the rows of the spine, ancillary and identities files.          *)
(***************************************************************************)
MaxSpine == 2
MaxAncillary == 1
MaxIdentities == 1

Empty == << >>

S_Jose == <<"J","o","s","e">>
S_Perez == <<"P","e","r","e","z">>
S_jose == <<"j","o","s","e">>
S_perez == <<"p","e","r","e","z">>
S_CJ == <<"C","J">>
S_Smith == <<"S","m","i","t","h">>
S_BAL == <<"B","A","L">>
S_NYY == <<"N","Y","Y">>
S_1998 == <<"1","9","9","8">>
S_1999 == <<"1","9","9","9">>
S_2001 == <<"2","0","0","1">>
S_2005 == <<"2","0","0","5">>
S_04 == <<"0","4">>
S_06 == <<"0","6">>
S_09 == <<"0","9">>
S_10 == <<"1","0">>

N_JosePerez == S_Jose \o <<" ">> \o S_Perez
N_joseperez == S_jose \o <<" ">> \o S_perez
N_jimperez == <<"j","i","m"," ">> \o S_perez
N_CJSmith == <<"C",".","J","."," ">> \o S_Smith

Id_700001 == <<"7","0","0","0","0","1">>
Id_700002 == <<"7","0","0","0","0","2">>
Id_700003 == <<"7","0","0","0","0","3">>
Id_700004 == <<"7","0","0","0","0","4">>
Id_700009 == <<"7","0","0","0","0","9">>
Id_800001 == <<"8","0","0","0","0","1">>
Id_800002 == <<"8","0","0","0","0","2">>

\* 2005-04-20: 10 days after 2005-04-10, 50 days before 2005-06-09.
D_20050420 == S_2005 \o <<"-">> \o S_04 \o <<"-","2","0">>

\* 2005-13-40: no date.
D_20051340 == S_2005 \o <<"-","1","3","-","4","0">>

SpineRow(id, first, last, y, m, d, orgs) ==
    [mlbam_id |-> id, name_first |-> first, name_last |-> last,
     yob |-> y, mob |-> m, dob |-> d, org_abbrevs_seen |-> orgs]

AncillaryRow(id, fst, lst, y, m, d) ==
    [mlbam_id |-> id, first |-> fst, last |-> lst, yob |-> y, mob |-> m, dob |-> d]

IdentityRow(key, name, y, m, d, orgs, dob_est, yob_e) ==
    [identity_key |-> key, player_name |-> name, yob |-> y, mob |-> m, dob |-> d,
     org_abbrevs |-> orgs, dob_est_ymd |-> dob_est, yob_est |-> yob_e]

SpinePool ==
    { SpineRow(Id_700001, S_Jose, S_Perez, S_2001, S_04, S_10, Empty),
      SpineRow(Id_700002, S_jose, S_perez, S_2005, S_04, S_10, S_BAL),
      SpineRow(Id_700003, S_jose, S_perez, S_2005, S_06, S_09, S_NYY),
      SpineRow(Id_700004, S_jose, S_perez, S_1998, Empty, Empty, Empty),
      SpineRow(Id_800001, S_CJ, S_Smith, Empty, Empty, Empty, S_BAL),
      SpineRow(Id_800002, S_CJ, S_Smith, Empty, Empty, Empty, S_NYY) }

AncillaryPool ==
    { AncillaryRow(Id_700002, S_jose, S_perez, S_2005, S_04, S_10),
      AncillaryRow(Id_700004, S_CJ, S_perez, S_1999, S_04, S_10),
      AncillaryRow(Id_700009, S_jose, S_perez, S_2005, S_04, S_10) }

IdentityPool ==
    { IdentityRow(<<"a">>, N_JosePerez, S_2001, S_04, S_10, Empty, Empty, Empty),
      IdentityRow(<<"b">>, N_joseperez, S_2005, S_04, S_10, Empty, Empty, Empty),
      IdentityRow(<<"c">>, N_joseperez, Empty, Empty, Empty, Empty, Empty, Empty),
      IdentityRow(<<"d">>, N_joseperez, Empty, Empty, Empty, S_BAL, Empty, Empty),
      IdentityRow(<<"e">>, N_joseperez, Empty, Empty, Empty, Empty, D_20050420, Empty),
      IdentityRow(<<"f">>, N_joseperez, Empty, Empty, Empty, Empty, Empty, S_1999),
      IdentityRow(<<"g">>, N_joseperez, Empty, Empty, Empty, S_NYY, D_20050420, Empty),
      IdentityRow(<<"h">>, N_CJSmith, Empty, Empty, Empty, S_BAL, Empty, Empty),
      IdentityRow(<<"i">>, N_jimperez, Empty, Empty, Empty, S_BAL, Empty, S_2005),
      IdentityRow(<<"j">>, N_jimperez, Empty, Empty, Empty, Empty, Empty, S_2005),
      IdentityRow(<<"k">>, N_jimperez, S_2005, S_04, S_10, Empty, Empty, Empty),
      IdentityRow(<<"l">>, N_jimperez, Empty, Empty, Empty, Empty, D_20050420, Empty),
      IdentityRow(<<"m">>, N_joseperez, Empty, Empty, Empty, S_BAL \o <<"|">> \o S_NYY, D_20051340, <<"x">>),
      IdentityRow(<<"n">>, N_joseperez, Empty, Empty, Empty, Empty, Empty, <<Sup2>>),
      IdentityRow(<<"o">>, N_joseperez, S_2005, S_04, Empty, Empty, Empty, Empty) }

\* The lists of lo..hi rows of a pool.
ListsOf(S, lo, hi) == UNION {[1..n -> S] : n \in lo..hi}

(***************************************************************************)
(* Input files.  A file is None when the path does not exist and otherwise *)
(* Some(rows): the dicts read_csv_dicts yields, each a function from the   *)
(* header's column names to the stripped cell.                             *)
(***************************************************************************)
\* (row.get(k) or "").strip()
RowGet(row, k) == IF k \in DOMAIN row THEN Strip(row[k]) ELSE Empty

\* The <<yob, mob, dob>> of an ISO date string.
parse_ymd_from_iso(s0) ==
    LET s == Strip(s0) IN
    IF s = << >> THEN <<Empty, Empty, Empty>>
    ELSE LET parts == SplitOn(SplitFirst(s, "T"), "-") IN
         IF Len(parts) >= 3
         THEN <<Strip(parts[1]), Strip(parts[2]), Strip(parts[3])>>
         ELSE <<Empty, Empty, Empty>>

\* pick(*cands): the first of cands that is a column, or None.
RECURSIVE pick(_, _)
pick(keys, cands) ==
    IF cands = << >> THEN None
    ELSE IF cands[1] \in keys THEN Some(cands[1])
    ELSE pick(keys, Tail(cands))

Raised == [raised |-> TRUE, rows |-> << >>]

Returned(out) == [raised |-> FALSE, rows |-> out]

IdentityRequired == {"identity_key", "fgid", "player_name", "player_url"}

\* Lines 141-172: the IdentityRow of every csv row.
IdentityRows(rows) ==
    [k \in 1..Len(rows) |->
        LET row == rows[k]
            birth_date == IF RowGet(row, "birth_date") # Empty
                          THEN RowGet(row, "birth_date") ELSE RowGet(row, "dob_ymd")
            ymd == IF birth_date # Empty THEN parse_ymd_from_iso(birth_date)
                   ELSE <<RowGet(row, "yob"), RowGet(row, "mob"), RowGet(row, "dob")>>
        IN  IdentityRow(RowGet(row, "identity_key"), RowGet(row, "player_name"),
                        ymd[1], ymd[2], ymd[3], RowGet(row, "org_abbrevs"),
                        RowGet(row, "dob_est_ymd"), RowGet(row, "yob_est"))]

\* read_identities without the required-columns check.
read_identities_unchecked(file) ==
    IF file = None \/ file[1] = << >> THEN Raised
    ELSE Returned(IdentityRows(file[1]))

\* read_identities: raises on a missing file, zero rows or a missing required column.
read_identities(file) ==
    IF file = None \/ file[1] = << >> THEN Raised
    ELSE IF IdentityRequired \ DOMAIN file[1][1] # {} THEN Raised
    ELSE Returned(IdentityRows(file[1]))

\* read_spine: rows with an empty id are skipped; raises on a missing file, zero
\* rows, a missing id or name column, or zero usable rows.
read_spine(file) ==
    IF file = None \/ file[1] = << >> THEN Raised
    ELSE LET rows == file[1]
             keys == DOMAIN rows[1]
             col_mlbam == pick(keys, <<"mlbam_id">>)
             col_first == pick(keys, <<"name_first", "first_name", "First", "first">>)
             col_last == pick(keys, <<"name_last", "last_name", "Last", "last">>)
             col_birth == pick(keys, <<"birth_date", "DOB", "dob_ymd">>)
             has_orgs == "org_abbrevs_seen" \in keys
         IN  IF col_mlbam = None \/ col_first = None \/ col_last = None THEN Raised
             ELSE LET usable == SelectSeq(rows, LAMBDA row : RowGet(row, col_mlbam[1]) # Empty)
                      out == [k \in 1..Len(usable) |->
                          LET row == usable[k]
                              ymd == IF col_birth # None /\ RowGet(row, col_birth[1]) # Empty
                                     THEN parse_ymd_from_iso(RowGet(row, col_birth[1]))
                                     ELSE <<RowGet(row, "yob"), RowGet(row, "mob"), RowGet(row, "dob")>>
                          IN  SpineRow(RowGet(row, col_mlbam[1]), RowGet(row, col_first[1]),
                                       RowGet(row, col_last[1]), ymd[1], ymd[2], ymd[3],
                                       IF has_orgs THEN RowGet(row, "org_abbrevs_seen") ELSE Empty)]
                  IN  IF out = << >> THEN Raised ELSE Returned(out)

AncillaryRequired == {"MLBAM_ID", "First", "Last", "YOB", "MOB", "DOB"}

\* read_ancillary: rows with an empty id are skipped; raises on zero rows, a
\* missing required column or zero usable rows.
read_ancillary(file) ==
    IF file = None \/ file[1] = << >> THEN Raised
    ELSE IF AncillaryRequired \ DOMAIN file[1][1] # {} THEN Raised
    ELSE LET usable == SelectSeq(file[1], LAMBDA r : RowGet(r, "MLBAM_ID") # Empty)
             out == [k \in 1..Len(usable) |->
                 LET r == usable[k]
                 IN  AncillaryRow(RowGet(r, "MLBAM_ID"), RowGet(r, "First"), RowGet(r, "Last"),
                                  RowGet(r, "YOB"), RowGet(r, "MOB"), RowGet(r, "DOB"))]
         IN  IF out = << >> THEN Raised ELSE Returned(out)

\* The csv row of a pool row.
RawIdentity(i) ==
    [identity_key |-> i.identity_key, fgid |-> Empty, player_name |-> i.player_name,
     player_url |-> Empty, yob |-> i.yob, mob |-> i.mob, dob |-> i.dob,
     org_abbrevs |-> i.org_abbrevs, dob_est_ymd |-> i.dob_est_ymd, yob_est |-> i.yob_est]

RawAncillary(a) ==
    [MLBAM_ID |-> a.mlbam_id, First |-> a.first, Last |-> a.last,
     YOB |-> a.yob, MOB |-> a.mob, DOB |-> a.dob]

\* A row of a file whose header lacks the column col.
WithoutColumn(row, col) == [c \in (DOMAIN row) \ {col} |-> row[c]]

D_20050410 == S_2005 \o <<"-">> \o S_04 \o <<"-">> \o S_10

Spine_700002 == SpineRow(Id_700002, S_jose, S_perez, S_2005, S_04, S_10, S_BAL)

\* A spine row without an id, and row 700002 under the alternative column names.
Spine_blank_id == SpineRow(Empty, S_jose, S_perez, S_2005, S_04, S_10, S_BAL)

Spine_700002_aliased ==
    [mlbam_id |-> Id_700002, First |-> S_jose, Last |-> S_perez,
     birth_date |-> D_20050410, org_abbrevs_seen |-> S_BAL]

\* Spine row 700004 without a first name.
Spine_700004_no_first == SpineRow(Id_700004, Empty, S_perez, S_1998, Empty, Empty, Empty)

Spine_700004 == SpineRow(Id_700004, S_jose, S_perez, S_1998, Empty, Empty, Empty)

\* A spine row whose yob column holds a two-digit year, and an identity whose
\* estimated year is that two-digit year.
Spine_700005 == SpineRow(<<"7","0","0","0","0","5">>, S_jose, S_perez, <<"0","5">>, Empty, Empty, Empty)

Identity_p == IdentityRow(<<"p">>, N_jimperez, Empty, Empty, Empty, Empty, Empty, <<"0","5">>)

Ancillary_700002 == AncillaryRow(Id_700002, S_jose, S_perez, S_2005, S_04, S_10)

Ancillary_700009 == AncillaryRow(Id_700009, S_jose, S_perez, S_2005, S_04, S_10)

Ancillary_blank_id == AncillaryRow(Empty, S_jose, S_perez, S_2005, S_04, S_10)

Identity_b == IdentityRow(<<"b">>, N_joseperez, S_2005, S_04, S_10, Empty, Empty, Empty)

\* Identity b with its date of birth in a birth_date column.
Identity_b_birth_date ==
    [identity_key |-> <<"b">>, fgid |-> Empty, player_name |-> N_joseperez,
     player_url |-> Empty, birth_date |-> D_20050410]

IdentityFiles ==
    {Some([k \in DOMAIN l |-> RawIdentity(l[k])]) : l \in ListsOf(IdentityPool, 1, MaxIdentities)}
    \cup {None, Some(<< >>), Some(<<WithoutColumn(RawIdentity(Identity_b), "fgid")>>),
          Some(<<Identity_b_birth_date>>), Some(<<RawIdentity(Identity_p)>>)}

SpineFiles ==
    {Some(l) : l \in ListsOf(SpinePool, 1, MaxSpine)}
    \cup {None, Some(<< >>), Some(<<Spine_blank_id>>), Some(<<Spine_blank_id, Spine_700002>>),
          Some(<<WithoutColumn(Spine_700002, "name_last")>>), Some(<<Spine_700002_aliased>>),
          Some(<<Spine_700004_no_first>>), Some(<<Spine_700004_no_first, Spine_700004>>),
          Some(<<Spine_700005>>)}

AncillaryFiles ==
    {Some([k \in DOMAIN l |-> RawAncillary(l[k])]) : l \in ListsOf(AncillaryPool, 1, MaxAncillary)}
    \cup {None, Some(<< >>), Some(<<RawAncillary(Ancillary_blank_id)>>),
          Some(<<WithoutColumn(RawAncillary(Ancillary_700009), "DOB")>>)}

(***************************************************************************)
(* Inputs for the name keys: every display name of up to MaxNameTokens     *)
(* tokens, resolved against a spine row carrying the same name cut into    *)
(* first and last at one of its spaces, or against the row of "CJ Smith".  *)
(***************************************************************************)
MaxNameTokens == 3

\* The empty token makes a doubled space.
NameTokens ==
    { <<"C",".","J",".">>, <<"C"," ","J">>, S_CJ, S_Smith,
      <<"J","r",".">>, Str_iii, Str_vi, Empty }

RawNames == {Strip(JoinWith(t, <<" ">>)) : t \in ListsOf(NameTokens, 1, MaxNameTokens)}

\* The <<first, last>> cells a spine file may hold for the display name x.
Cuts(x) ==
    {<<x, Empty>>} \cup
    {<<Strip(SubSeq(x, 1, k - 1)), Strip(SubSeq(x, k + 1, Len(x)))>> :
        k \in {j \in 1..Len(x) : x[j] = " "}}

Spine_800001 == SpineRow(Id_800001, S_CJ, S_Smith, Empty, Empty, Empty, S_BAL)

NameIdentityFile(x) ==
    Some(<<RawIdentity(IdentityRow(<<"x">>, x, Empty, Empty, Empty, Empty, Empty, Empty))>>)

NameSpineRow(c) == SpineRow(Id_700001, c[1], c[2], Empty, Empty, Empty, Empty)

NameAncillaryRow(c) == RawAncillary(AncillaryRow(Id_700009, c[1], c[2], Empty, Empty, Empty))

\* The pairs <<spine file, ancillary file>> the name x is resolved against.
NameFiles(x) ==
    {<<Some(<<NameSpineRow(c)>>), None>> : c \in Cuts(x)}
    \cup {<<Some(<<Spine_800001>>), None>>}
    \cup {<<Some(<<NameSpineRow(<<x, Empty>>)>>), Some(<<NameAncillaryRow(c)>>)>> :
             c \in Cuts(x) \ {<<x, Empty>>}}

(***************************************************************************)
(* Inputs for the batch: lists of up to MaxBatch identities that are       *)
(* resolved by a rule, ambiguous, unmatched or malformed, against two      *)
(* spine records of the same name.                                         *)
(***************************************************************************)
MaxBatch == 3

Spine_700003 == SpineRow(Id_700003, S_jose, S_perez, S_2005, S_06, S_09, S_NYY)

BatchIdentityPool ==
    { Identity_b,
      IdentityRow(<<"c">>, N_joseperez, Empty, Empty, Empty, Empty, Empty, Empty),
      IdentityRow(<<"j">>, N_jimperez, Empty, Empty, Empty, Empty, Empty, S_2005),
      IdentityRow(<<"k">>, N_jimperez, S_2005, S_04, S_10, Empty, Empty, Empty),
      IdentityRow(<<"n">>, N_joseperez, Empty, Empty, Empty, Empty, Empty, <<Sup2>>) }

BatchIdentityFiles ==
    {Some([k \in DOMAIN l |-> RawIdentity(l[k])]) : l \in ListsOf(BatchIdentityPool, 1, MaxBatch)}

(***************************************************************************)
(* build_player_season_fangraphs: the season table keyed by                *)
(* (mlbam_id, report_year), built from the identity map written above and  *)
(* the identity season rows.                                               *)
(***************************************************************************)
MaxSeasons == 2

\* Code point of a character, for the order of str on identity keys.
CodePoint(c) ==
    IF c \in DigitSet THEN 48 + DigitVal(c)
    ELSE IF c \in UpperSet THEN 64 + (CHOOSE k \in 1..26 : Upper[k] = c)
    ELSE IF c \in Range(Lower) THEN 96 + (CHOOSE k \in 1..26 : Lower[k] = c)
    ELSE 255

\* a < b for two str.
RECURSIVE StrBefore(_, _)
StrBefore(a, b) ==
    IF b = << >> THEN FALSE
    ELSE IF a = << >> THEN TRUE
    ELSE IF Head(a) = Head(b) THEN StrBefore(Tail(a), Tail(b))
    ELSE CodePoint(Head(a)) < CodePoint(Head(b))

\* utils parse_int: None for an empty cell and when int() raises ValueError.
parse_int(s0) ==
    LET s == Strip(s0)
        signed == s # << >> /\ s[1] \in {"+", "-"}
        body == IF signed THEN Tail(s) ELSE s
    IN  IF s = << >> \/ body = << >> \/ IntRaises(body) THEN None
        ELSE Some(IF s[1] = "-" THEN 0 - ToInt(body) ELSE ToInt(body))

AllDigits(s) == \A k \in 1..Len(s) : s[k] \in DigitSet

\* Days from 1970-01-01 to the date dt.
EpochDays(dt) == Ordinal(dt) - Ordinal(<<1970, 1, 1>>)

\* datetime.fromisoformat on YYYY-MM-DD, YYYY-MM-DD?hh:mm:ss and
\* YYYY-MM-DD?hh:mm:ss.fff: None for ValueError, or Some(<<s, ms>>), the whole
\* seconds since the epoch (floor) and the milliseconds above them.
fromisoformat(s) ==
    IF Len(s) \notin {10, 19, 23} THEN None
    ELSE IF ~(s[5] = "-" /\ s[8] = "-" /\ AllDigits(SubSeq(s, 1, 4))
              /\ AllDigits(SubSeq(s, 6, 7)) /\ AllDigits(SubSeq(s, 9, 10))) THEN None
    ELSE LET dt == <<ToInt(SubSeq(s, 1, 4)), ToInt(SubSeq(s, 6, 7)), ToInt(SubSeq(s, 9, 10))>> IN
         IF ~ValidDate(dt[1], dt[2], dt[3]) THEN None
         ELSE IF Len(s) = 10 THEN Some(<<EpochDays(dt) * 86400, 0>>)
         ELSE IF ~(s[14] = ":" /\ s[17] = ":" /\ AllDigits(SubSeq(s, 12, 13))
                   /\ AllDigits(SubSeq(s, 15, 16)) /\ AllDigits(SubSeq(s, 18, 19))) THEN None
         ELSE LET hh == ToInt(SubSeq(s, 12, 13))
                  mm == ToInt(SubSeq(s, 15, 16))
                  ss == ToInt(SubSeq(s, 18, 19))
                  secs == EpochDays(dt) * 86400 + hh * 3600 + mm * 60 + ss
              IN  IF hh > 23 \/ mm > 59 \/ ss > 59 THEN None
                  ELSE IF Len(s) = 19 THEN Some(<<secs, 0>>)
                  ELSE IF s[20] = "." /\ AllDigits(SubSeq(s, 21, 23))
                       THEN Some(<<secs, ToInt(SubSeq(s, 21, 23))>>)
                       ELSE None

\* parse_isoish_date: a trailing Z is dropped; the date before "T" is the fallback.
parse_isoish_date(s0) ==
    LET s1 == Strip(s0)
        s == IF s1 # << >> /\ s1[Len(s1)] = "Z" THEN SubSeq(s1, 1, Len(s1) - 1) ELSE s1
    IN  IF s1 = << >> THEN None
        ELSE IF fromisoformat(s) # None THEN fromisoformat(s)
        ELSE fromisoformat(SplitFirst(s, "T"))

\* int(dt.timestamp()): the timestamp cut to whole seconds, toward zero.
IntTimestamp(dt) == IF dt[1] < 0 /\ dt[2] > 0 THEN dt[1] + 1 ELSE dt[1]

RK_MISSING == 1000000000

SeasonRow(identity_key, fgid, report_year, rk, published_date, row) ==
    [identity_key |-> identity_key, fgid |-> fgid, report_year |-> report_year,
     rk |-> rk, published_date |-> published_date, row |-> row]

\* selection_key: smaller is better.
selection_key(sr) ==
    LET dt == parse_isoish_date(sr.published_date)
    IN  << IF sr.fgid # Empty THEN 0 ELSE 1,
           IF dt # None THEN 0 - IntTimestamp(dt[1]) ELSE 0,
           IF sr.rk # None THEN sr.rk[1] ELSE RK_MISSING,
           sr.identity_key >>

\* k1 < k2 for two selection keys, as tuples compare.
KeyLess(k1, k2) ==
    \/ k1[1] < k2[1]
    \/ k1[1] = k2[1] /\ k1[2] < k2[2]
    \/ k1[1] = k2[1] /\ k1[2] = k2[2] /\ k1[3] < k2[3]
    \/ k1[1] = k2[1] /\ k1[2] = k2[2] /\ k1[3] = k2[3] /\ StrBefore(k1[4], k2[4])

\* choose_best: sorted(rows, key=selection_key)[0], the sort being stable.
choose_best(rows) ==
    rows[CHOOSE k \in DOMAIN rows :
            /\ \A j \in DOMAIN rows : ~KeyLess(selection_key(rows[j]), selection_key(rows[k]))
            /\ \A j \in 1..(k - 1) : selection_key(rows[j]) # selection_key(rows[k])]

\* load_identity_map over the rows of the identity map: Raised on zero rows and on
\* two ids for one identity_key, else the dict identity_key -> mlbam_id.
RECURSIVE IdentityMapFrom(_, _)
IdentityMapFrom(rows, out) ==
    IF rows = << >> THEN [raised |-> FALSE, map |-> out]
    ELSE LET k == Strip(rows[1].identity_key)
             v == Strip(rows[1].mlbam_id)
         IN  IF k = Empty \/ v = Empty THEN IdentityMapFrom(Tail(rows), out)
             ELSE IF k \in DOMAIN out /\ out[k] # v THEN [raised |-> TRUE, map |-> EmptyDict]
             ELSE IdentityMapFrom(Tail(rows), DictSet(out, k, v))

load_identity_map(rows) ==
    IF rows = << >> THEN [raised |-> TRUE, map |-> EmptyDict]
    ELSE IdentityMapFrom(rows, EmptyDict)

SeasonRequired == {"identity_key", "report_year"}

\* iter_season_rows: rows without identity_key or without an integer report_year
\* are skipped; raises on zero rows or a missing required column.
iter_season_rows(file) ==
    IF file[1] = << >> THEN Raised
    ELSE IF SeasonRequired \ DOMAIN file[1][1] # {} THEN Raised
    ELSE LET usable == SelectSeq(file[1], LAMBDA r :
                 RowGet(r, "identity_key") # Empty /\ parse_int(RowGet(r, "report_year")) # None)
         IN  Returned([k \in 1..Len(usable) |->
                 LET r == usable[k]
                 IN  SeasonRow(RowGet(r, "identity_key"), RowGet(r, "fgid"),
                               parse_int(RowGet(r, "report_year"))[1],
                               parse_int(RowGet(r, "rk")), RowGet(r, "published_date"), r)])

\* The position of a key in the buckets, 0 when it has none.
BucketAt(bs, key) ==
    IF \E k \in DOMAIN bs : bs[k][1] = key THEN CHOOSE k \in DOMAIN bs : bs[k][1] = key ELSE 0

\* Lines 150-158 over the season rows srs: the buckets, as the list of
\* <<key, rows>> in the order the dict got its keys, and the counters.
RECURSIVE Bucketed(_, _, _)
Bucketed(srs, idmap, acc) ==
    IF srs = << >> THEN acc
    ELSE LET sr == srs[1]
             id == DictGet(idmap, sr.identity_key, Empty)
             key == <<id, sr.report_year>>
             at == BucketAt(acc.buckets, key)
         IN  IF id = Empty
             THEN Bucketed(Tail(srs), idmap,
                      [acc EXCEPT !.total_in = @ + 1, !.unmapped = @ + 1])
             ELSE Bucketed(Tail(srs), idmap,
                      [acc EXCEPT !.total_in = @ + 1, !.mapped = @ + 1,
                                  !.buckets = IF at = 0 THEN Append(@, <<key, <<sr>>>>)
                                              ELSE [@ EXCEPT ![at] = <<key, Append(@[2], sr)>>]])

\* The key of the sort at line 228 raises: int() on a digit it rejects, or an int
\* compared with a str.
OutputSortRaises(keys) ==
    \/ \E k \in DOMAIN keys : IsDigitStr(keys[k][1]) /\ IntRaises(keys[k][1])
    \/ \E k, j \in DOMAIN keys : IsDigitStr(keys[k][1]) /\ ~IsDigitStr(keys[j][1])

\* x sorts before y at line 228, ids being numbers or being str.
OutputBefore(x, y) ==
    IF IsDigitStr(x[1])
    THEN ToInt(x[1]) < ToInt(y[1]) \/ (ToInt(x[1]) = ToInt(y[1]) /\ x[2] < y[2])
    ELSE StrBefore(x[1], y[1]) \/ (x[1] = y[1] /\ x[2] < y[2])

\* The positions of keys in the order of the stable sort at line 228.
RECURSIVE OutputOrder(_, _)
OutputOrder(keys, todo) ==
    IF todo = {} THEN << >>
    ELSE LET k == CHOOSE k \in todo :
                     \A j \in todo \ {k} :
                         ~OutputBefore(keys[j], keys[k])
                         /\ (~OutputBefore(keys[k], keys[j]) => k < j)
         IN  <<k>> \o OutputOrder(keys, todo \ {k})

\* Lines 229-233: the output row of a key and its chosen season row.
OutputRow(key, chosen) ==
    [c \in ({"mlbam_id", "report_year"} \cup DOMAIN chosen.row) \ {"identity_key"} |->
        IF c \in DOMAIN chosen.row THEN Strip(chosen.row[c])
        ELSE IF c = "mlbam_id" THEN key[1] ELSE IntToStr(key[2])]

\* A row of the identity seasons file.
RawSeason(identity_key, fgid, report_year, rk, published_date) ==
    [identity_key |-> identity_key, fgid |-> fgid, report_year |-> report_year,
     rk |-> rk, published_date |-> published_date]

S_2024 == <<"2","0","2","4">>

S_2025 == <<"2","0","2","5">>

P_20240205 == S_2024 \o <<"-","0","2","-","0","5">>

P_20240301 == S_2024 \o <<"-","0","3","-","0","1">>

\* 2024-02-05T12:00:00.100 and 2024-02-05T12:00:00.900
P_noon_100 == P_20240205 \o <<"T","1","2",":","0","0",":","0","0",".","1","0","0">>

P_noon_900 == P_20240205 \o <<"T","1","2",":","0","0",":","0","0",".","9","0","0">>

Season_b == RawSeason(<<"b">>, <<"f">>, S_2024, <<"5">>, P_20240205)

\* Rows of the identities b and k (one id), c (no id) and r (another id): a row
\* and what beats it or loses to it on each step of the policy, a pair of rows
\* published within one second, rows without date, rk or report_year.
SeasonPool ==
    { Season_b,
      RawSeason(<<"k">>, Empty, S_2024, <<"1">>, P_20240301),
      RawSeason(<<"k">>, <<"f">>, S_2024, <<"9">>, P_20240301),
      RawSeason(<<"k">>, <<"f">>, S_2024, <<"1">>, P_20240205),
      RawSeason(<<"k">>, <<"f">>, S_2024, <<"5">>, P_20240205),
      RawSeason(<<"b">>, <<"f">>, S_2024, <<"9">>, P_noon_900),
      RawSeason(<<"k">>, <<"f">>, S_2024, <<"1">>, P_noon_100),
      RawSeason(<<"c">>, <<"f">>, S_2024, <<"1">>, P_20240301),
      RawSeason(<<"r">>, <<"f">>, S_2025, Empty, Empty),
      RawSeason(<<"b">>, <<"f">>, Empty, <<"1">>, P_20240205),
      RawSeason(<<"b">>, <<"f">>, S_2024, Empty, Empty) }

SeasonFiles ==
    {Some(l) : l \in ListsOf(SeasonPool, 1, MaxSeasons)}
    \cup {None, Some(<< >>), Some(<<WithoutColumn(Season_b, "report_year")>>)}

Identity_c == IdentityRow(<<"c">>, N_joseperez, Empty, Empty, Empty, Empty, Empty, Empty)

Identity_k == IdentityRow(<<"k">>, N_jimperez, S_2005, S_04, S_10, Empty, Empty, Empty)

Identity_r == IdentityRow(<<"r">>, N_joseperez, S_2005, S_06, S_09, Empty, Empty, Empty)

(***************************************************************************)
(* State of main()                                                         *)
(***************************************************************************)
VARIABLES
    identities_file, spine_file, ancillary_file,
    spine, ancillary, identities,
    idx_first_last_dob, idx_last_dob, idx_full_name, idx_last_yob,
    idx_anc_first_last_dob, idx_anc_last_dob, idx_anc_full_name, idx_anc_last_yob,
    yob_by_id, dob_by_id, orgs_by_id, first_initial_by_id,
    pc, pos,
    mlbam_id, match_method, match_status, candidates, candidates_by_rule,
    cand, cand_unique, hits, chosen,
    matched, ambiguous, unmatched, by_status, out_rows, manifest,
    seasons_file, id_map, buckets, season_stats, chosen_by_key, season_out

files == <<identities_file, spine_file, ancillary_file>>

inputs == <<files, spine, ancillary, identities>>

spine_indexes == <<idx_first_last_dob, idx_last_dob, idx_full_name, idx_last_yob>>

anc_indexes == <<idx_anc_first_last_dob, idx_anc_last_dob, idx_anc_full_name, idx_anc_last_yob>>

aux_maps == <<yob_by_id, dob_by_id, orgs_by_id, first_initial_by_id>>

outcome == <<mlbam_id, match_method, match_status>>

rule_locals == <<candidates, candidates_by_rule, cand, cand_unique, hits, chosen>>

outputs == <<matched, ambiguous, unmatched, by_status, out_rows, manifest>>

\* The state of build_player_season_fangraphs.
season_build == <<seasons_file, id_map, buckets, season_stats, chosen_by_key, season_out>>

vars == <<inputs, spine_indexes, anc_indexes, aux_maps, pc, pos, outcome, rule_locals, outputs,
          season_build>>

\* The state of main() before its first statement, but for the input files.
Start ==
    /\ spine = << >> /\ ancillary = << >> /\ identities = << >>
    /\ idx_first_last_dob = EmptyDict /\ idx_last_dob = EmptyDict
    /\ idx_full_name = EmptyDict /\ idx_last_yob = EmptyDict
    /\ idx_anc_first_last_dob = EmptyDict /\ idx_anc_last_dob = EmptyDict
    /\ idx_anc_full_name = EmptyDict /\ idx_anc_last_yob = EmptyDict
    /\ yob_by_id = EmptyDict /\ dob_by_id = EmptyDict
    /\ orgs_by_id = EmptyDict /\ first_initial_by_id = EmptyDict
    /\ pc = "read_identities" /\ pos = 1
    /\ mlbam_id = Empty /\ match_method = "" /\ match_status = ""
    /\ candidates = << >> /\ candidates_by_rule = EmptyDict
    /\ cand = << >> /\ cand_unique = << >> /\ hits = << >> /\ chosen = None
    /\ matched = 0 /\ ambiguous = 0 /\ unmatched = 0 /\ by_status = EmptyDict
    /\ out_rows = << >> /\ manifest = None
    /\ id_map = EmptyDict /\ buckets = << >>
    /\ season_stats = [total_in |-> 0, mapped |-> 0, unmapped |-> 0, collisions |-> 0, dropped |-> 0]
    /\ chosen_by_key = << >> /\ season_out = << >>

Init ==
    /\ identities_file \in IdentityFiles
    /\ spine_file \in SpineFiles
    /\ ancillary_file \in AncillaryFiles
    /\ seasons_file = Some(<<Season_b>>)
    /\ Start

\* Line 321: identities = read_identities(identities_path).
ReadIdentities ==
    /\ pc = "read_identities"
    /\ LET r == read_identities(identities_file)
       IN  IF r.raised
           THEN pc' = "raised" /\ UNCHANGED identities
           ELSE pc' = "read_spine" /\ identities' = r.rows
    /\ UNCHANGED <<files, spine, ancillary, spine_indexes, anc_indexes, aux_maps, pos,
                   outcome, rule_locals, outputs>>
    /\ UNCHANGED season_build

\* Line 322: spine = read_spine(spine_path).
ReadSpine ==
    /\ pc = "read_spine"
    /\ LET r == read_spine(spine_file)
       IN  IF r.raised
           THEN pc' = "raised" /\ UNCHANGED spine
           ELSE pc' = "read_ancillary" /\ spine' = r.rows
    /\ UNCHANGED <<files, identities, ancillary, spine_indexes, anc_indexes, aux_maps, pos,
                   outcome, rule_locals, outputs>>
    /\ UNCHANGED season_build

\* Lines 324-327: the ancillary file is read only if it exists.
ReadAncillary ==
    /\ pc = "read_ancillary"
    /\ IF ancillary_file = None
       THEN pc' = "index_spine" /\ UNCHANGED ancillary
       ELSE LET r == read_ancillary(ancillary_file)
            IN  IF r.raised
                THEN pc' = "raised" /\ UNCHANGED ancillary
                ELSE pc' = "index_spine" /\ ancillary' = r.rows
    /\ UNCHANGED <<files, identities, spine, spine_indexes, anc_indexes, aux_maps, pos,
                   outcome, rule_locals, outputs>>
    /\ UNCHANGED season_build

\* IndexRow entering a row in the last-name-and-date index on its year alone.
IndexRow_year_only(ix, id, fn, ln, full, y, m, d) ==
    << IF fn # Empty /\ ln # Empty /\ y # Empty /\ m # Empty /\ d # Empty
       THEN add_to_index(ix[1], <<fn, ln, y, m, d>>, id) ELSE ix[1],
       IF ln # Empty /\ y # Empty
       THEN add_to_index(ix[2], <<ln, y, m, d>>, id) ELSE ix[2],
       IF full # Empty THEN add_to_index(ix[3], <<full>>, id) ELSE ix[3],
       IF ln # Empty /\ y # Empty
       THEN add_to_index(ix[4], <<ln, y>>, id) ELSE ix[4] >>

\* The four spine-side index insertions of one row (lines 355-363), applied to the
\* spine or to the ancillary index set <<first_last_dob, last_dob, full_name, last_yob>>.
IndexRow(ix, id, fn, ln, full, y, m, d) ==
    << IF fn # Empty /\ ln # Empty /\ y # Empty /\ m # Empty /\ d # Empty
       THEN add_to_index(ix[1], <<fn, ln, y, m, d>>, id) ELSE ix[1],
       IF ln # Empty /\ y # Empty /\ m # Empty /\ d # Empty
       THEN add_to_index(ix[2], <<ln, y, m, d>>, id) ELSE ix[2],
       IF full # Empty THEN add_to_index(ix[3], <<full>>, id) ELSE ix[3],
       IF ln # Empty /\ y # Empty
       THEN add_to_index(ix[4], <<ln, y>>, id) ELSE ix[4] >>

\* for s in spine: one iteration.
IndexSpineRow ==
    /\ pc = "index_spine"
    /\ LET s == spine[pos]
           fn == norm_text(s.name_first)
           ln == norm_text(s.name_last)
           full == normalize_person_name_for_match(s.name_first \o <<" ">> \o s.name_last)
           y == Strip(s.yob)
           m == Strip(s.mob)
           d == Strip(s.dob)
           ix == IndexRow(spine_indexes, s.mlbam_id, fn, ln, full, y, m, d)
       IN  /\ first_initial_by_id' =
                 IF s.mlbam_id \notin DOMAIN first_initial_by_id /\ fn # Empty
                 THEN DictSet(first_initial_by_id, s.mlbam_id, <<fn[1]>>)
                 ELSE first_initial_by_id
           /\ idx_first_last_dob' = ix[1]
           /\ idx_last_dob' = ix[2]
           /\ idx_full_name' = ix[3]
           /\ idx_last_yob' = ix[4]
           /\ yob_by_id' = DictSet(yob_by_id, s.mlbam_id, Strip(s.yob))
           /\ dob_by_id' = DictSet(dob_by_id, s.mlbam_id,
                                   IF y # Empty /\ m # Empty /\ d # Empty
                                   THEN parse_date_ymd(YmdString(y, m, d)) ELSE None)
           /\ orgs_by_id' =
                 IF s.org_abbrevs_seen # Empty
                 THEN DictSet(orgs_by_id, s.mlbam_id, Range(SplitOrgs(s.org_abbrevs_seen)))
                 ELSE orgs_by_id
    /\ IF pos < Len(spine)
       THEN pc' = "index_spine" /\ pos' = pos + 1
       ELSE pc' = (IF ancillary # << >> THEN "index_ancillary" ELSE "identity") /\ pos' = 1
    /\ UNCHANGED <<inputs, anc_indexes, outcome, rule_locals, outputs>>
    /\ UNCHANGED season_build

\* IndexAncillaryRow recording its first initial over the one already recorded.
IndexAncillaryRow_last_initial ==
    /\ pc = "index_ancillary"
    /\ LET a == ancillary[pos]
           fn == norm_text(a.first)
           ln == norm_text(a.last)
           full == normalize_person_name_for_match(a.first \o <<" ">> \o a.last)
           y == Strip(a.yob)
           m == Strip(a.mob)
           d == Strip(a.dob)
           ix == IndexRow(anc_indexes, a.mlbam_id, fn, ln, full, y, m, d)
       IN  /\ first_initial_by_id' =
                 IF fn # Empty
                 THEN DictSet(first_initial_by_id, a.mlbam_id, <<fn[1]>>)
                 ELSE first_initial_by_id
           /\ idx_anc_first_last_dob' = ix[1]
           /\ idx_anc_last_dob' = ix[2]
           /\ idx_anc_full_name' = ix[3]
           /\ idx_anc_last_yob' = ix[4]
           /\ yob_by_id' =
                 IF a.mlbam_id \notin DOMAIN yob_by_id \/ DictGet(yob_by_id, a.mlbam_id, Empty) = Empty
                 THEN DictSet(yob_by_id, a.mlbam_id, y) ELSE yob_by_id
           /\ dob_by_id' =
                 IF a.mlbam_id \notin DOMAIN dob_by_id \/ DictGet(dob_by_id, a.mlbam_id, None) = None
                 THEN DictSet(dob_by_id, a.mlbam_id,
                              IF y # Empty /\ m # Empty /\ d # Empty
                              THEN parse_date_ymd(YmdString(y, m, d)) ELSE None)
                 ELSE dob_by_id
    /\ IF pos < Len(ancillary)
       THEN pc' = "index_ancillary" /\ pos' = pos + 1
       ELSE pc' = "identity" /\ pos' = 1
    /\ UNCHANGED <<inputs, spine_indexes, orgs_by_id, outcome, rule_locals, outputs>>
    /\ UNCHANGED season_build

\* IndexAncillaryRow writing its year and date over whatever the maps hold.
IndexAncillaryRow_overriding ==
    /\ pc = "index_ancillary"
    /\ LET a == ancillary[pos]
           fn == norm_text(a.first)
           ln == norm_text(a.last)
           full == normalize_person_name_for_match(a.first \o <<" ">> \o a.last)
           y == Strip(a.yob)
           m == Strip(a.mob)
           d == Strip(a.dob)
           ix == IndexRow(anc_indexes, a.mlbam_id, fn, ln, full, y, m, d)
       IN  /\ first_initial_by_id' =
                 IF a.mlbam_id \notin DOMAIN first_initial_by_id /\ fn # Empty
                 THEN DictSet(first_initial_by_id, a.mlbam_id, <<fn[1]>>)
                 ELSE first_initial_by_id
           /\ idx_anc_first_last_dob' = ix[1]
           /\ idx_anc_last_dob' = ix[2]
           /\ idx_anc_full_name' = ix[3]
           /\ idx_anc_last_yob' = ix[4]
           /\ yob_by_id' = DictSet(yob_by_id, a.mlbam_id, y)
           /\ dob_by_id' = DictSet(dob_by_id, a.mlbam_id,
                                   IF y # Empty /\ m # Empty /\ d # Empty
                                   THEN parse_date_ymd(YmdString(y, m, d)) ELSE None)
    /\ IF pos < Len(ancillary)
       THEN pc' = "index_ancillary" /\ pos' = pos + 1
       ELSE pc' = "identity" /\ pos' = 1
    /\ UNCHANGED <<inputs, spine_indexes, orgs_by_id, outcome, rule_locals, outputs>>
    /\ UNCHANGED season_build

\* for a in ancillary: one iteration.
IndexAncillaryRow ==
    /\ pc = "index_ancillary"
    /\ LET a == ancillary[pos]
           fn == norm_text(a.first)
           ln == norm_text(a.last)
           full == normalize_person_name_for_match(a.first \o <<" ">> \o a.last)
           y == Strip(a.yob)
           m == Strip(a.mob)
           d == Strip(a.dob)
           ix == IndexRow(anc_indexes, a.mlbam_id, fn, ln, full, y, m, d)
       IN  /\ first_initial_by_id' =
                 IF a.mlbam_id \notin DOMAIN first_initial_by_id /\ fn # Empty
                 THEN DictSet(first_initial_by_id, a.mlbam_id, <<fn[1]>>)
                 ELSE first_initial_by_id
           /\ idx_anc_first_last_dob' = ix[1]
           /\ idx_anc_last_dob' = ix[2]
           /\ idx_anc_full_name' = ix[3]
           /\ idx_anc_last_yob' = ix[4]
           /\ yob_by_id' =
                 IF a.mlbam_id \notin DOMAIN yob_by_id \/ DictGet(yob_by_id, a.mlbam_id, Empty) = Empty
                 THEN DictSet(yob_by_id, a.mlbam_id, y) ELSE yob_by_id
           /\ dob_by_id' =
                 IF a.mlbam_id \notin DOMAIN dob_by_id \/ DictGet(dob_by_id, a.mlbam_id, None) = None
                 THEN DictSet(dob_by_id, a.mlbam_id,
                              IF y # Empty /\ m # Empty /\ d # Empty
                              THEN parse_date_ymd(YmdString(y, m, d)) ELSE None)
                 ELSE dob_by_id
    /\ IF pos < Len(ancillary)
       THEN pc' = "index_ancillary" /\ pos' = pos + 1
       ELSE pc' = "identity" /\ pos' = 1
    /\ UNCHANGED <<inputs, spine_indexes, orgs_by_id, outcome, rule_locals, outputs>>
    /\ UNCHANGED season_build

(***************************************************************************)
(* The resolution loop: for ident in identities                            *)
(***************************************************************************)
ident == identities[pos]

\* first_norm, last_norm = split_first_last_person(ident.player_name)
first_norm == split_first_last_person(ident.player_name)[1]

last_norm == split_first_last_person(ident.player_name)[2]

full_norm == normalize_person_name_for_match(ident.player_name)

y_ == Strip(ident.yob)

m_ == Strip(ident.mob)

d_ == Strip(ident.dob)

\* has_dob asking for the year alone.
has_dob_year_only == y_ # Empty

has_dob == y_ # Empty /\ m_ # Empty /\ d_ # Empty

\* "if u:" for an Optional[str]: neither None nor "".
Truthy(opt) == opt # None /\ opt[1] # Empty

\* StartIdentity with candidates_by_rule created once, before the loop.
StartIdentity_keeps_candidates ==
    /\ pc = "identity"
    /\ mlbam_id' = Empty /\ match_method' = "" /\ match_status' = ""
    /\ candidates' = << >>
    /\ pc' = "rule1"
    /\ UNCHANGED <<inputs, spine_indexes, anc_indexes, aux_maps, pos, candidates_by_rule,
                   cand, cand_unique, hits, chosen, outputs>>
    /\ UNCHANGED season_build

\* Lines 433-443: the per-identity locals are reset.
StartIdentity ==
    /\ pc = "identity"
    /\ mlbam_id' = Empty /\ match_method' = "" /\ match_status' = ""
    /\ candidates' = << >> /\ candidates_by_rule' = EmptyDict
    /\ pc' = "rule1"
    /\ UNCHANGED <<inputs, spine_indexes, anc_indexes, aux_maps, pos,
                   cand, cand_unique, hits, chosen, outputs>>
    /\ UNCHANGED season_build

\* Rule 1: exact normalized first+last + full DOB.
Rule1 ==
    /\ pc = "rule1"
    /\ IF has_dob
       THEN LET key == <<first_norm, last_norm, y_, m_, d_>>
                c == DictGet(idx_first_last_dob, key, << >>) \o DictGet(idx_anc_first_last_dob, key, << >>)
                u == unique_or_none(c)
            IN  /\ cand' = c
                /\ candidates_by_rule' = DictSet(candidates_by_rule, "exact_name_dob", c)
                /\ IF Truthy(u)
                   THEN /\ mlbam_id' = u[1]
                        /\ match_method' = "exact_name_dob"
                        /\ match_status' = "matched_exact_name_dob"
                   ELSE UNCHANGED outcome
       ELSE UNCHANGED <<cand, candidates_by_rule, outcome>>
    /\ pc' = "rule2"
    /\ UNCHANGED <<inputs, spine_indexes, anc_indexes, aux_maps, pos,
                   candidates, cand_unique, hits, chosen, outputs>>
    /\ UNCHANGED season_build

\* Rule 2 run whether or not rule 1 chose an id.
Rule2_unguarded ==
    /\ pc = "rule2"
    /\ IF has_dob
       THEN LET key == <<last_norm, y_, m_, d_>>
                c == DictGet(idx_last_dob, key, << >>) \o DictGet(idx_anc_last_dob, key, << >>)
                u == unique_or_none(c)
            IN  /\ cand' = c
                /\ candidates_by_rule' = DictSet(candidates_by_rule, "lastname_dob", c)
                /\ IF Truthy(u)
                   THEN /\ mlbam_id' = u[1]
                        /\ match_method' = "lastname_dob"
                        /\ match_status' = "matched_lastname_dob"
                   ELSE UNCHANGED outcome
       ELSE UNCHANGED <<cand, candidates_by_rule, outcome>>
    /\ pc' = "rule3"
    /\ UNCHANGED <<inputs, spine_indexes, anc_indexes, aux_maps, pos,
                   candidates, cand_unique, hits, chosen, outputs>>
    /\ UNCHANGED season_build

\* Rule 2: exact last + full DOB.
Rule2 ==
    /\ pc = "rule2"
    /\ IF mlbam_id = Empty /\ has_dob
       THEN LET key == <<last_norm, y_, m_, d_>>
                c == DictGet(idx_last_dob, key, << >>) \o DictGet(idx_anc_last_dob, key, << >>)
                u == unique_or_none(c)
            IN  /\ cand' = c
                /\ candidates_by_rule' = DictSet(candidates_by_rule, "lastname_dob", c)
                /\ IF Truthy(u)
                   THEN /\ mlbam_id' = u[1]
                        /\ match_method' = "lastname_dob"
                        /\ match_status' = "matched_lastname_dob"
                   ELSE UNCHANGED outcome
       ELSE UNCHANGED <<cand, candidates_by_rule, outcome>>
    /\ pc' = "rule3"
    /\ UNCHANGED <<inputs, spine_indexes, anc_indexes, aux_maps, pos,
                   candidates, cand_unique, hits, chosen, outputs>>
    /\ UNCHANGED season_build

\* Rule 3 never accepting its own candidate list: every identity goes on to the tie-breaks.
Rule3_never_unique ==
    /\ pc = "rule3"
    /\ IF mlbam_id = Empty
       THEN LET key == <<full_norm>>
                c == DictGet(idx_full_name, key, << >>) \o DictGet(idx_anc_full_name, key, << >>)
            IN  /\ cand' = c
                /\ candidates_by_rule' = DictSet(candidates_by_rule, "name_only", c)
                /\ cand_unique' = SortedSeq(Range(c))
                /\ chosen' = None
                /\ pc' = "tiebreak_a"
                /\ UNCHANGED outcome
       ELSE /\ pc' = "rule4"
            /\ UNCHANGED <<cand, candidates_by_rule, cand_unique, chosen, outcome>>
    /\ UNCHANGED <<inputs, spine_indexes, anc_indexes, aux_maps, pos, candidates, hits, outputs>>
    /\ UNCHANGED season_build

\* Rule 3: the full-name lookup (lines 472-486); the tie-breaks follow when it is not unique.
Rule3 ==
    /\ pc = "rule3"
    /\ IF mlbam_id = Empty
       THEN LET key == <<full_norm>>
                c == DictGet(idx_full_name, key, << >>) \o DictGet(idx_anc_full_name, key, << >>)
                u == unique_or_none(c)
            IN  /\ cand' = c
                /\ candidates_by_rule' = DictSet(candidates_by_rule, "name_only", c)
                /\ cand_unique' = SortedSeq(Range(c))
                /\ IF Truthy(u)
                   THEN /\ mlbam_id' = u[1]
                        /\ match_method' = "name_only_unique"
                        /\ match_status' = "matched_name_only_unique"
                        /\ chosen' = chosen
                        /\ pc' = "rule4"
                   ELSE /\ chosen' = None
                        /\ pc' = "tiebreak_a"
                        /\ UNCHANGED outcome
       ELSE /\ pc' = "rule4"
            /\ UNCHANGED <<cand, candidates_by_rule, cand_unique, chosen, outcome>>
    /\ UNCHANGED <<inputs, spine_indexes, anc_indexes, aux_maps, pos, candidates, hits, outputs>>
    /\ UNCHANGED season_build

\* any(o in orgs for o in ident_orgs)
OrgsOverlap(ident_orgs, orgs) == \E k \in 1..Len(ident_orgs) : ident_orgs[k] \in orgs

\* The hits of tie-break A over the candidates cu.
OrgHits(cu, ident_orgs, orgs_map) ==
    SortedSeq({cid \in Range(cu) : OrgsOverlap(ident_orgs, DictGet(orgs_map, cid, {}))})

\* Tie-break A: org abbrev intersection.
TieBreakA ==
    /\ pc = "tiebreak_a"
    /\ LET ident_orgs == SplitOrgs(ident.org_abbrevs) IN
       IF ident_orgs # << >> /\ cand_unique # << >>
       THEN LET h == OrgHits(cand_unique, ident_orgs, orgs_by_id) IN
            /\ hits' = h
            /\ IF Len(h) = 1
               THEN /\ chosen' = Some(h[1])
                    /\ match_method' = "name_plus_org_unique"
                    /\ match_status' = "matched_name_with_tiebreak"
               ELSE UNCHANGED <<chosen, match_method, match_status>>
       ELSE UNCHANGED <<hits, chosen, match_method, match_status>>
    /\ pc' = "tiebreak_b"
    /\ UNCHANGED <<inputs, spine_indexes, anc_indexes, aux_maps, pos, mlbam_id,
                   candidates, candidates_by_rule, cand, cand_unique, outputs>>
    /\ UNCHANGED season_build

\* Tie-break B run whether or not tie-break A chose.
TieBreakB_unguarded ==
    /\ pc = "tiebreak_b"
    /\ IF cand_unique # << >>
       THEN LET c == tie_break_by_estimated_dob(cand_unique, ident.dob_est_ymd, dob_by_id, TOLERANCE_DAYS) IN
            /\ chosen' = c
            /\ IF c # None
               THEN /\ match_method' = "name_plus_est_dob_unique"
                    /\ match_status' = "matched_name_with_tiebreak"
               ELSE UNCHANGED <<match_method, match_status>>
       ELSE UNCHANGED <<chosen, match_method, match_status>>
    /\ pc' = "tiebreak_c"
    /\ UNCHANGED <<inputs, spine_indexes, anc_indexes, aux_maps, pos, mlbam_id,
                   candidates, candidates_by_rule, cand, cand_unique, hits, outputs>>
    /\ UNCHANGED season_build

\* Tie-break B: estimated DOB proximity.
TieBreakB ==
    /\ pc = "tiebreak_b"
    /\ IF chosen = None /\ cand_unique # << >>
       THEN LET c == tie_break_by_estimated_dob(cand_unique, ident.dob_est_ymd, dob_by_id, TOLERANCE_DAYS) IN
            /\ chosen' = c
            /\ IF c # None
               THEN /\ match_method' = "name_plus_est_dob_unique"
                    /\ match_status' = "matched_name_with_tiebreak"
               ELSE UNCHANGED <<match_method, match_status>>
       ELSE UNCHANGED <<chosen, match_method, match_status>>
    /\ pc' = "tiebreak_c"
    /\ UNCHANGED <<inputs, spine_indexes, anc_indexes, aux_maps, pos, mlbam_id,
                   candidates, candidates_by_rule, cand, cand_unique, hits, outputs>>
    /\ UNCHANGED season_build

\* Some candidate's known year makes int(yob_c) raise in the loop of tie-break C.
YobRaises(cu, yob_map) ==
    \E cid \in Range(cu) :
        LET yob_c == Strip(DictGet(yob_map, cid, Empty))
        IN  IsDigitStr(yob_c) /\ IntRaises(yob_c)

\* YobHits with a tolerance of two years.
YobHits_within2(cu, est_yob, yob_map) ==
    SortedSeq({cid \in Range(cu) :
        LET yob_c == Strip(DictGet(yob_map, cid, Empty))
        IN  IsDigitStr(yob_c) /\ Abs(ToInt(yob_c) - est_yob) <= 2})

\* The hits of tie-break C over the candidates cu.
YobHits(cu, est_yob, yob_map) ==
    SortedSeq({cid \in Range(cu) :
        LET yob_c == Strip(DictGet(yob_map, cid, Empty))
        IN  IsDigitStr(yob_c) /\ Abs(ToInt(yob_c) - est_yob) <= 1})

\* Tie-break C choosing an id and naming its method without setting the status.
TieBreakC_without_status ==
    /\ pc = "tiebreak_c"
    /\ IF chosen = None /\ cand_unique # << >> /\ ident.yob_est # Empty /\ IsDigitStr(ident.yob_est)
       THEN IF IntRaises(ident.yob_est) \/ YobRaises(cand_unique, yob_by_id)
            THEN /\ pc' = "raised"
                 /\ UNCHANGED <<hits, chosen, outcome>>
            ELSE LET h == YobHits(cand_unique, ToInt(ident.yob_est), yob_by_id) IN
                 /\ hits' = h
                 /\ IF Len(h) = 1
                    THEN /\ chosen' = Some(h[1])
                         /\ match_method' = "name_plus_est_yob_unique"
                         /\ match_status' = match_status
                    ELSE UNCHANGED <<chosen, match_method, match_status>>
                 /\ mlbam_id' = IF Truthy(chosen') THEN chosen'[1] ELSE mlbam_id
                 /\ pc' = "rule4"
       ELSE /\ UNCHANGED <<hits, chosen, match_method, match_status>>
            /\ mlbam_id' = IF Truthy(chosen) THEN chosen[1] ELSE mlbam_id
            /\ pc' = "rule4"
    /\ UNCHANGED <<inputs, spine_indexes, anc_indexes, aux_maps, pos,
                   candidates, candidates_by_rule, cand, cand_unique, outputs>>
    /\ UNCHANGED season_build

\* Tie-break C: estimated YOB +/-1, then "if chosen: mlbam_id = chosen".  Nothing
\* catches the ValueError of int(ident.yob_est) or int(yob_c): the run ends there.
TieBreakC ==
    /\ pc = "tiebreak_c"
    /\ IF chosen = None /\ cand_unique # << >> /\ ident.yob_est # Empty /\ IsDigitStr(ident.yob_est)
       THEN IF IntRaises(ident.yob_est) \/ YobRaises(cand_unique, yob_by_id)
            THEN /\ pc' = "raised"
                 /\ UNCHANGED <<hits, chosen, outcome>>
            ELSE LET h == YobHits(cand_unique, ToInt(ident.yob_est), yob_by_id) IN
                 /\ hits' = h
                 /\ IF Len(h) = 1
                    THEN /\ chosen' = Some(h[1])
                         /\ match_method' = "name_plus_est_yob_unique"
                         /\ match_status' = "matched_name_with_tiebreak"
                    ELSE UNCHANGED <<chosen, match_method, match_status>>
                 /\ mlbam_id' = IF Truthy(chosen') THEN chosen'[1] ELSE mlbam_id
                 /\ pc' = "rule4"
       ELSE /\ UNCHANGED <<hits, chosen, match_method, match_status>>
            /\ mlbam_id' = IF Truthy(chosen) THEN chosen[1] ELSE mlbam_id
            /\ pc' = "rule4"
    /\ UNCHANGED <<inputs, spine_indexes, anc_indexes, aux_maps, pos,
                   candidates, candidates_by_rule, cand, cand_unique, outputs>>
    /\ UNCHANGED season_build

\* Lines 533-537: the year looked up by rule 4.
Rule4Year(idn) ==
    LET yob_e == Strip(idn.yob_est) IN
    IF ~(IsDigitStr(yob_e) /\ Len(yob_e) = 4)
    THEN LET d_est == parse_date_ymd(idn.dob_est_ymd)
         IN  IF d_est # None THEN IntToStr(d_est[1]) ELSE yob_e
    ELSE yob_e

\* Rule4Candidates without the ancillary index.
Rule4Candidates_spine_only(last, yob_e) == DictGet(idx_last_yob, <<last, yob_e>>, << >>)

\* Lines 544-547: the candidates of rule 4.
Rule4Candidates(last, yob_e) ==
    DictGet(idx_last_yob, <<last, yob_e>>, << >>)
        \o (IF ancillary # << >> THEN DictGet(idx_anc_last_yob, <<last, yob_e>>, << >>) ELSE << >>)

\* The hits of guard A over the candidates cu.
GuardOrgHits(cu, ident_orgs, orgs_map) ==
    SortedSeq({cid \in Range(cu) :
        LET orgs == DictGet(orgs_map, cid, {})
        IN  orgs # {} /\ OrgsOverlap(ident_orgs, orgs)})

\* InitialHits counting every candidate, whatever its recorded first initial.
InitialHits_unchecked(cu, first_initial, initial_map) == SortedSeq(Range(cu))

\* The hits of guard B over the candidates cu.
InitialHits(cu, first_initial, initial_map) ==
    SortedSeq({cid \in Range(cu) :
        LET fi == Strip(DictGet(initial_map, cid, Empty))
        IN  fi # Empty /\ fi = first_initial})

\* Rule 4: last name + estimated YOB, accepted only through guard A or guard B.
Rule4 ==
    /\ pc = "rule4"
    /\ LET yob_e == Rule4Year(ident)
           fl == split_first_last(ident.player_name)
           first_initial == IF fl[1] # Empty THEN <<fl[1][1]>> ELSE Empty
           ident_orgs == SplitOrgs(ident.org_abbrevs)
       IN  IF mlbam_id = Empty /\ IsDigitStr(yob_e) /\ fl[2] # Empty
           THEN LET cs == Rule4Candidates(fl[2], yob_e)
                    cu == SortedSeq(Range(cs))
                    ha == GuardOrgHits(cu, ident_orgs, orgs_by_id)
                    a_runs == ident_orgs # << >> /\ cu # << >>
                    a_fires == a_runs /\ Len(ha) = 1
                    hb == InitialHits(cu, first_initial, first_initial_by_id)
                    b_runs == ~a_fires /\ first_initial # Empty /\ cu # << >>
                    b_fires == b_runs /\ Len(hb) = 1
                IN  /\ candidates' = cs
                    /\ cand_unique' = cu
                    /\ hits' = IF b_runs THEN hb ELSE IF a_runs THEN ha ELSE hits
                    /\ mlbam_id' = IF a_fires THEN ha[1] ELSE IF b_fires THEN hb[1] ELSE mlbam_id
                    /\ match_method' =
                          IF a_fires THEN "lastname_plus_yob_est_plus_org_unique"
                          ELSE IF b_fires THEN "lastname_plus_yob_est_plus_first_initial_unique"
                          ELSE match_method
                    /\ match_status' =
                          IF a_fires \/ b_fires THEN "matched_lastname_plus_yob_est_unique"
                          ELSE match_status
           ELSE UNCHANGED <<candidates, cand_unique, hits, outcome>>
    /\ pc' = "classify"
    /\ UNCHANGED <<inputs, spine_indexes, anc_indexes, aux_maps, pos,
                   candidates_by_rule, cand, chosen, outputs>>
    /\ UNCHANGED season_build

\* Lines 578-581: sorted(set(all_candidates)) over candidates_by_rule.values().
AllCandidatesUnique(by_rule) ==
    SortedSeq(UNION {Range(by_rule[r]) : r \in DOMAIN by_rule})

\* ClassifyUnresolved leaving the method as the loop head set it.
ClassifyUnresolved_no_method(all_unique) ==
    IF Len(all_unique) > 1
    THEN [status |-> "ambiguous_multiple_candidates", method |-> ""]
    ELSE [status |-> "unmatched_no_candidate", method |-> ""]

\* ClassifyUnresolved calling ambiguous only three or more candidates.
ClassifyUnresolved_over2(all_unique) ==
    IF Len(all_unique) > 2
    THEN [status |-> "ambiguous_multiple_candidates", method |-> "none"]
    ELSE [status |-> "unmatched_no_candidate", method |-> "none"]

\* Lines 583-597: the status and method of an identity no rule resolved.
ClassifyUnresolved(all_unique) ==
    IF Len(all_unique) > 1
    THEN [status |-> "ambiguous_multiple_candidates", method |-> "none"]
    ELSE [status |-> "unmatched_no_candidate", method |-> "none"]

\* CountStatus recording only that the status occurred.
CountStatus_once(d, status) == DictSet(d, status, 1)

\* by_status[match_status] = by_status.get(match_status, 0) + 1
CountStatus(d, status) == DictSet(d, status, DictGet(d, status, 0) + 1)

\* Lines 578-624: classification, counters and the output row of one identity.
Classify ==
    /\ pc = "classify"
    /\ LET all_unique == AllCandidatesUnique(candidates_by_rule)
           cls == IF mlbam_id # Empty
                  THEN [status |-> match_status, method |-> match_method]
                  ELSE ClassifyUnresolved(all_unique)
       IN  /\ match_status' = cls.status
           /\ match_method' = cls.method
           /\ matched' = IF mlbam_id # Empty THEN matched + 1 ELSE matched
           /\ ambiguous' = IF mlbam_id = Empty /\ Len(all_unique) > 1 THEN ambiguous + 1 ELSE ambiguous
           /\ unmatched' = IF mlbam_id = Empty /\ ~(Len(all_unique) > 1) THEN unmatched + 1 ELSE unmatched
           /\ by_status' = CountStatus(by_status, cls.status)
           /\ out_rows' = Append(out_rows,
                 [identity_key |-> ident.identity_key,
                  player_name |-> ident.player_name,
                  mlbam_id |-> mlbam_id,
                  match_status |-> cls.status,
                  match_method |-> cls.method,
                  candidate_mlbam_ids |-> JoinWith(all_unique, <<"|">>),
                  matched_mlbam_id |-> mlbam_id,
                  identity_yob |-> y_,
                  identity_mob |-> m_,
                  identity_dob |-> d_,
                  identity_org_abbrevs |-> ident.org_abbrevs,
                  identity_dob_est_ymd |-> ident.dob_est_ymd,
                  identity_yob_est |-> ident.yob_est])
    /\ IF pos < Len(identities)
       THEN pc' = "identity" /\ pos' = pos + 1
       ELSE pc' = "manifest" /\ pos' = pos
    /\ UNCHANGED <<inputs, spine_indexes, anc_indexes, aux_maps, mlbam_id, rule_locals,
                   manifest>>
    /\ UNCHANGED season_build

\* The status tags main() assigns, in the order of str (code point by code point).
StatusTags ==
    << "ambiguous_multiple_candidates", "matched_exact_name_dob", "matched_lastname_dob",
       "matched_lastname_plus_yob_est_unique", "matched_name_only_unique",
       "matched_name_with_tiebreak", "unmatched_no_candidate" >>

\* sorted(by_status.keys())
SortedKeys(d) == SelectSeq(StatusTags, LAMBDA t : t \in DOMAIN d)

\* Lines 626-644: the manifest, a summary row and the <<status, count>> rows.
WriteManifest ==
    /\ pc = "manifest"
    /\ manifest' = Some([identities |-> Len(identities), matched |-> matched,
                         ambiguous |-> ambiguous, unmatched |-> unmatched,
                         breakdown |-> [k \in 1..Len(SortedKeys(by_status)) |->
                                          <<SortedKeys(by_status)[k],
                                            by_status[SortedKeys(by_status)[k]]>>]])
    /\ pc' = "done"
    /\ UNCHANGED <<inputs, spine_indexes, anc_indexes, aux_maps, pos, outcome, rule_locals,
                   matched, ambiguous, unmatched, by_status, out_rows>>
    /\ UNCHANGED season_build

(***************************************************************************)
(* The season build, run on the identity map just written.                 *)
(***************************************************************************)
\* main lines 306-309 and line 142: both files must exist, then
\* id_map = load_identity_map(identity_map_csv).
LoadIdentityMap ==
    /\ pc = "done"
    /\ LET r == load_identity_map(out_rows)
       IN  IF seasons_file = None \/ r.raised
           THEN pc' = "season_raised" /\ UNCHANGED id_map
           ELSE pc' = "season_rows" /\ id_map' = r.map
    /\ UNCHANGED <<inputs, spine_indexes, anc_indexes, aux_maps, pos, outcome, rule_locals,
                   outputs, seasons_file, buckets, season_stats, chosen_by_key, season_out>>

\* Lines 150-158: for sr in iter_season_rows(...): count and bucket.
BucketSeasonRows ==
    /\ pc = "season_rows"
    /\ LET r == iter_season_rows(seasons_file)
       IN  IF r.raised
           THEN pc' = "season_raised" /\ UNCHANGED <<buckets, season_stats>>
           ELSE LET acc == Bucketed(r.rows, id_map,
                               [total_in |-> 0, mapped |-> 0, unmapped |-> 0, buckets |-> << >>])
                IN  /\ buckets' = acc.buckets
                    /\ season_stats' = [season_stats EXCEPT !.total_in = acc.total_in,
                                            !.mapped = acc.mapped, !.unmapped = acc.unmapped]
                    /\ pc' = "dedup"
    /\ UNCHANGED <<inputs, spine_indexes, anc_indexes, aux_maps, pos, outcome, rule_locals,
                   outputs, seasons_file, id_map, chosen_by_key, season_out>>

\* Lines 189-234: one chosen row per bucket, then the output rows in the order
\* of line 228.
Deduplicate ==
    /\ pc = "dedup"
    /\ LET picked == [k \in DOMAIN buckets |-> <<buckets[k][1], choose_best(buckets[k][2])>>]
           keys == [k \in DOMAIN buckets |-> buckets[k][1]]
           collided == {k \in DOMAIN buckets : Len(buckets[k][2]) > 1}
           order == OutputOrder(keys, DOMAIN keys)
       IN  /\ chosen_by_key' = picked
           /\ season_stats' = [season_stats EXCEPT
                                  !.collisions = Cardinality(collided),
                                  !.dropped = season_stats.mapped - Len(buckets)]
           /\ IF OutputSortRaises(keys)
              THEN pc' = "season_raised" /\ UNCHANGED season_out
              ELSE /\ season_out' = [k \in DOMAIN order |->
                                        OutputRow(picked[order[k]][1], picked[order[k]][2])]
                   /\ pc' = "season_done"
    /\ UNCHANGED <<inputs, spine_indexes, anc_indexes, aux_maps, pos, outcome, rule_locals,
                   outputs, seasons_file, id_map, buckets>>

Next ==
    \/ ReadIdentities
    \/ ReadSpine
    \/ ReadAncillary
    \/ IndexSpineRow
    \/ IndexAncillaryRow
    \/ StartIdentity
    \/ Rule1
    \/ Rule2
    \/ Rule3
    \/ TieBreakA
    \/ TieBreakB
    \/ TieBreakC
    \/ Rule4
    \/ Classify
    \/ WriteManifest
    \/ LoadIdentityMap
    \/ BucketSeasonRows
    \/ Deduplicate

Spec == Init /\ [][Next]_vars

\* The same program on the inputs for the name keys.
InitNames ==
    /\ \E x \in RawNames :
          /\ identities_file = NameIdentityFile(x)
          /\ \E f \in NameFiles(x) : spine_file = f[1] /\ ancillary_file = f[2]
    /\ seasons_file = Some(<<Season_b>>)
    /\ Start

SpecNames == InitNames /\ [][Next]_vars

\* The same program on batches of up to MaxBatch identities.
InitBatch ==
    /\ identities_file \in BatchIdentityFiles
    /\ spine_file = Some(<<Spine_700002, Spine_700003>>)
    /\ ancillary_file \in {None, Some(<<RawAncillary(Ancillary_700009)>>)}
    /\ seasons_file = Some(<<Season_b>>)
    /\ Start

SpecBatch == InitBatch /\ [][Next]_vars

\* The same program on four identities, two of them resolved to one id, one to
\* another id and one to none, followed by the season build on every list of up
\* to MaxSeasons season rows.
InitSeasons ==
    /\ identities_file = Some(<<RawIdentity(Identity_b), RawIdentity(Identity_k),
                                RawIdentity(Identity_c), RawIdentity(Identity_r)>>)
    /\ spine_file = Some(<<Spine_700002, Spine_700003>>)
    /\ ancillary_file = Some(<<RawAncillary(Ancillary_700002)>>)
    /\ seasons_file \in SeasonFiles
    /\ Start

SpecSeasons == InitSeasons /\ [][Next]_vars

(***************************************************************************)
(* Vocabulary of the properties: what the indexes and maps hold for an     *)
(* identity row idn, read off the state and not off the rule actions.      *)
(***************************************************************************)
InLoop == pc \in {"rule1", "rule2", "rule3", "tiebreak_a", "tiebreak_b", "tiebreak_c", "rule4", "classify"}

RuleMethods == {"exact_name_dob", "lastname_dob", "name_only_unique"}

TieBreakMethods == {"name_plus_org_unique", "name_plus_est_dob_unique", "name_plus_est_yob_unique"}

Rule4Methods == {"lastname_plus_yob_est_plus_org_unique", "lastname_plus_yob_est_plus_first_initial_unique"}

\* The ids the spine and ancillary indexes of one shape associate with a key.
IdsUnder(ix, ix_anc, key) == Range(DictGet(ix, key, << >>)) \cup Range(DictGet(ix_anc, key, << >>))

CompleteDob(idn) == Strip(idn.yob) # Empty /\ Strip(idn.mob) # Empty /\ Strip(idn.dob) # Empty

NameDobIds(idn) ==
    LET fl == split_first_last_person(idn.player_name)
    IN  IdsUnder(idx_first_last_dob, idx_anc_first_last_dob,
                 <<fl[1], fl[2], Strip(idn.yob), Strip(idn.mob), Strip(idn.dob)>>)

LastDobIds(idn) ==
    LET fl == split_first_last_person(idn.player_name)
    IN  IdsUnder(idx_last_dob, idx_anc_last_dob,
                 <<fl[2], Strip(idn.yob), Strip(idn.mob), Strip(idn.dob)>>)

NameIds(idn) ==
    IdsUnder(idx_full_name, idx_anc_full_name, <<normalize_person_name_for_match(idn.player_name)>>)

LastYobIds(idn) ==
    IdsUnder(idx_last_yob, idx_anc_last_yob, <<split_first_last(idn.player_name)[2], Rule4Year(idn)>>)

Rule1Unique(idn) == CompleteDob(idn) /\ Cardinality(NameDobIds(idn)) = 1

Rule2Unique(idn) == CompleteDob(idn) /\ Cardinality(LastDobIds(idn)) = 1

\* Rules 1 and 2 chose nothing, so the full-name lookup is made.
NameLookupMade(idn) == ~Rule1Unique(idn) /\ ~Rule2Unique(idn)

DeclaredOrgs(idn) == {o \in Range(SplitOn(idn.org_abbrevs, "|")) : Strip(o) # Empty}

KnownOrgs(cid) == DictGet(orgs_by_id, cid, {})

\* The name candidates whose spine-recorded organizations meet the identity's.
OrgSurvivors(idn) == {cid \in NameIds(idn) : DeclaredOrgs(idn) \cap KnownOrgs(cid) # {}}

\* Days between a candidate's known date of birth and a parsed estimate.
DayDistance(cid, est) == Abs(Ordinal(dob_by_id[cid]) - Ordinal(est))

HasKnownDob(cid) == cid \in DOMAIN dob_by_id /\ dob_by_id[cid] # None

\* The name candidates with a known date of birth within n days of the estimated one.
EstDobSurvivors(idn, n) ==
    LET est == parse_date_ymd(idn.dob_est_ymd)
    IN  IF est = None THEN {}
        ELSE {cid \in NameIds(idn) : HasKnownDob(cid) /\ DayDistance(cid, est) <= n}

KnownYob(cid) == DictGet(yob_by_id, cid, Empty)

\* A numeric year: decimal digits only.
IsNumeric(s) == s # << >> /\ \A k \in 1..Len(s) : s[k] \in DigitSet

\* The name candidates whose known year of birth is within n of the estimated one.
EstYobSurvivors(idn, n) ==
    IF ~IsNumeric(idn.yob_est) THEN {}
    ELSE {cid \in NameIds(idn) :
            /\ IsNumeric(KnownYob(cid))
            /\ ToInt(KnownYob(cid)) - ToInt(idn.yob_est) \in (0 - n)..n}

Ambiguous3(idn) == NameLookupMade(idn) /\ Cardinality(NameIds(idn)) >= 2

OrgDecides(idn) == Ambiguous3(idn) /\ Cardinality(OrgSurvivors(idn)) = 1

EstDobDecides(idn) ==
    Ambiguous3(idn) /\ ~OrgDecides(idn) /\ Cardinality(EstDobSurvivors(idn, 45)) = 1

EstYobDecides(idn) ==
    /\ Ambiguous3(idn) /\ ~OrgDecides(idn) /\ ~EstDobDecides(idn)
    /\ Cardinality(EstYobSurvivors(idn, 1)) = 1

\* No rule up to and including the tie-breaks chose an id.
LastResortReached(idn) ==
    /\ NameLookupMade(idn)
    /\ Cardinality(NameIds(idn)) # 1
    /\ ~OrgDecides(idn) /\ ~EstDobDecides(idn) /\ ~EstYobDecides(idn)

\* Rule 4 makes its lookup.
LastResortLookupMade(idn) ==
    /\ LastResortReached(idn)
    /\ IsDigitStr(Rule4Year(idn))
    /\ split_first_last(idn.player_name)[2] # Empty

\* The rule-4 candidates with known organizations meeting the identity's.
GuardOrgSurvivors(idn) ==
    {cid \in LastYobIds(idn) : KnownOrgs(cid) # {} /\ DeclaredOrgs(idn) \cap KnownOrgs(cid) # {}}

FirstInitialOf(idn) ==
    LET f == split_first_last(idn.player_name)[1]
    IN  IF f = Empty THEN Empty ELSE <<f[1]>>

\* The rule-4 candidates whose recorded first initial is the identity's.
InitialSurvivors(idn) ==
    {cid \in LastYobIds(idn) :
        /\ FirstInitialOf(idn) # Empty
        /\ DictGet(first_initial_by_id, cid, Empty) = FirstInitialOf(idn)}

GuardOrgDecides(idn) == LastResortLookupMade(idn) /\ Cardinality(GuardOrgSurvivors(idn)) = 1

GuardInitialDecides(idn) ==
    LastResortLookupMade(idn) /\ ~GuardOrgDecides(idn) /\ Cardinality(InitialSurvivors(idn)) = 1

The(S) == CHOOSE x \in S : TRUE

Row(n) == out_rows[n]

Idn(n) == identities[n]

Rows == DOMAIN out_rows

(***************************************************************************)
(* C1: a chosen id is the sole element of the deduplicated set examined by *)
(* the rule, tie-break or guard that set it; the engine never picks one id *)
(* out of two or more.                                                     *)
(***************************************************************************)
ExaminedBy(method, idn) ==
    CASE method = "exact_name_dob" -> NameDobIds(idn)
      [] method = "lastname_dob" -> LastDobIds(idn)
      [] method = "name_only_unique" -> NameIds(idn)
      [] method = "name_plus_org_unique" -> OrgSurvivors(idn)
      [] method = "name_plus_est_dob_unique" -> EstDobSurvivors(idn, 45)
      [] method = "name_plus_est_yob_unique" -> EstYobSurvivors(idn, 1)
      [] method = "lastname_plus_yob_est_plus_org_unique" -> GuardOrgSurvivors(idn)
      [] method = "lastname_plus_yob_est_plus_first_initial_unique" -> InitialSurvivors(idn)
      [] OTHER -> {}

C1_ChosenIsSoleExamined ==
    /\ (InLoop /\ mlbam_id # Empty) => ExaminedBy(match_method, ident) = {mlbam_id}
    /\ \A n \in Rows :
          Row(n).mlbam_id # Empty => ExaminedBy(Row(n).match_method, Idn(n)) = {Row(n).mlbam_id}

\* A tie-break chose among two or more same-named candidates.
C1_Witness ==
    \E n \in Rows :
        /\ Row(n).mlbam_id # Empty
        /\ Row(n).match_method \in TieBreakMethods
        /\ Cardinality(NameIds(Idn(n))) >= 2

(***************************************************************************)
(* C2: the rules run in the order exact_name_dob, lastname_dob, name_only  *)
(* (with its tie-breaks), lastname_plus_yob_est; once a rule has chosen an *)
(* id no later step changes the id, method or status, and the outcome is   *)
(* that of the first rule in the order that yields a unique id.            *)
(***************************************************************************)
C2_FirstRuleDecided ==
    IF Rule1Unique(ident)
    THEN outcome = <<The(NameDobIds(ident)), "exact_name_dob", "matched_exact_name_dob">>
    ELSE IF Rule2Unique(ident)
    THEN outcome = <<The(LastDobIds(ident)), "lastname_dob", "matched_lastname_dob">>
    ELSE IF Cardinality(NameIds(ident)) = 1
    THEN outcome = <<The(NameIds(ident)), "name_only_unique", "matched_name_only_unique">>
    ELSE IF OrgDecides(ident) \/ EstDobDecides(ident) \/ EstYobDecides(ident)
    THEN mlbam_id # Empty /\ match_method \in TieBreakMethods
    ELSE IF GuardOrgDecides(ident) \/ GuardInitialDecides(ident)
    THEN mlbam_id # Empty /\ match_method \in Rule4Methods
    ELSE mlbam_id = Empty

C2_RuleOrder ==
    /\ [][(InLoop /\ mlbam_id # Empty) => outcome' = outcome]_vars
    /\ [](pc = "classify" => C2_FirstRuleDecided)

\* Rule 1 chose while rule 2 and the name-only rule had a unique candidate too.
C2_Witness ==
    /\ pc = "classify"
    /\ match_method = "exact_name_dob"
    /\ Rule2Unique(ident)
    /\ Cardinality(NameIds(ident)) = 1

(***************************************************************************)
(* C3: an identity with a complete birth date for which exactly one id has *)
(* the same first name, last name and birth date resolves to that id with  *)
(* method exact_name_dob and status matched_exact_name_dob (so does "Jose  *)
(* Perez", 2001-04-10 against the single record Jose / Perez / 2001-04-10  *)
(* / 700001).                                                              *)
(***************************************************************************)
\* The ids of the registry rows carrying the identity's own name and birth date.
SameNameDobIds(idn) ==
    {r.mlbam_id : r \in {x \in Range(spine) :
        /\ x.name_first \o <<" ">> \o x.name_last = idn.player_name
        /\ <<x.yob, x.mob, x.dob>> = <<idn.yob, idn.mob, idn.dob>>}}
    \cup
    {r.mlbam_id : r \in {x \in Range(ancillary) :
        /\ x.first \o <<" ">> \o x.last = idn.player_name
        /\ <<x.yob, x.mob, x.dob>> = <<idn.yob, idn.mob, idn.dob>>}}

C3_ExactNameDob ==
    \A n \in Rows :
        (CompleteDob(Idn(n)) /\ Cardinality(SameNameDobIds(Idn(n))) = 1) =>
            /\ Row(n).mlbam_id = The(SameNameDobIds(Idn(n)))
            /\ Row(n).match_method = "exact_name_dob"
            /\ Row(n).match_status = "matched_exact_name_dob"

(***************************************************************************)
(* C4: two or more ids share the identity's normalized full name, the      *)
(* date-keyed rules single nobody out, and the identity carries no         *)
(* organizations, no estimated date and no estimated year of birth: the    *)
(* status is ambiguous_multiple_candidates and no id is chosen.            *)
(***************************************************************************)
NoSignal(idn) == DeclaredOrgs(idn) = {} /\ idn.dob_est_ymd = Empty /\ idn.yob_est = Empty

C4_AmbiguousNeverPicked ==
    \A n \in Rows :
        (Ambiguous3(Idn(n)) /\ NoSignal(Idn(n))) =>
            /\ Row(n).match_status = "ambiguous_multiple_candidates"
            /\ Row(n).mlbam_id = Empty

C4_Witness == \E n \in Rows : Ambiguous3(Idn(n)) /\ NoSignal(Idn(n))

(***************************************************************************)
(* C5: when the full-name lookup returns two or more ids and the identity  *)
(* declares organizations, the id is chosen with method                    *)
(* name_plus_org_unique exactly when one and only one candidate's          *)
(* spine-recorded organizations meet the identity's; and "C.J. Smith" with *)
(* organization BAL, no birth date, against two candidates named           *)
(* "cj smith" with organizations BAL and NYY resolves to the BAL candidate *)
(* by name_plus_org_unique.                                                *)
(***************************************************************************)
C5_OrgRule ==
    \A n \in Rows :
        (Ambiguous3(Idn(n)) /\ DeclaredOrgs(Idn(n)) # {}) =>
            /\ Row(n).match_method = "name_plus_org_unique" <=> Cardinality(OrgSurvivors(Idn(n))) = 1
            /\ Row(n).match_method = "name_plus_org_unique" => Row(n).mlbam_id = The(OrgSurvivors(Idn(n)))

Key_cj_smith == <<"c","j"," ","s","m","i","t","h">>

\* The ids the full-name indexes hold under "cj smith".
CjSmithIds == IdsUnder(idx_full_name, idx_anc_full_name, <<Key_cj_smith>>)

C5_CjSmithScenario ==
    \A n \in Rows :
        ( /\ Idn(n).player_name = N_CJSmith
          /\ Idn(n).org_abbrevs = S_BAL
          /\ ~CompleteDob(Idn(n))
          /\ Cardinality(CjSmithIds) = 2
          /\ \E a, b \in CjSmithIds : KnownOrgs(a) = {S_BAL} /\ KnownOrgs(b) = {S_NYY} ) =>
            /\ Row(n).match_method = "name_plus_org_unique"
            /\ KnownOrgs(Row(n).mlbam_id) = {S_BAL}

C5_OrgTieBreak == C5_OrgRule /\ C5_CjSmithScenario

(***************************************************************************)
(* C6: among the deduplicated name candidates, those with a known date of  *)
(* birth within 45 days of the identity's parsed estimated date are kept   *)
(* (candidates without a known date are skipped) and the id is chosen with *)
(* method name_plus_est_dob_unique only when exactly one survives; with    *)
(* one candidate 10 days away and one 50 days away the first is chosen.    *)
(***************************************************************************)
C6_EstDobTieBreak ==
    \A n \in Rows :
        (Ambiguous3(Idn(n)) /\ ~OrgDecides(Idn(n))) =>
            /\ Row(n).match_method = "name_plus_est_dob_unique"
                   <=> Cardinality(EstDobSurvivors(Idn(n), 45)) = 1
            /\ Row(n).match_method = "name_plus_est_dob_unique"
                   => Row(n).mlbam_id = The(EstDobSurvivors(Idn(n), 45))

\* The candidate 10 days away was chosen over the one 50 days away.
C6_Witness ==
    \E n \in Rows :
        /\ Row(n).match_method = "name_plus_est_dob_unique"
        /\ \E b \in NameIds(Idn(n)) :
              /\ HasKnownDob(b) /\ HasKnownDob(Row(n).mlbam_id)
              /\ DayDistance(Row(n).mlbam_id, parse_date_ymd(Idn(n).dob_est_ymd)) = 10
              /\ DayDistance(b, parse_date_ymd(Idn(n).dob_est_ymd)) = 50

C8_TieBreakOrder ==
    [][ /\ pc = "tiebreak_a" =>
              /\ chosen' # None <=> OrgDecides(ident)
              /\ chosen' # None =>
                    chosen' = Some(The(OrgSurvivors(ident))) /\ match_method' = "name_plus_org_unique"
        /\ (pc \in {"tiebreak_b", "tiebreak_c"} /\ chosen # None) =>
              chosen' = chosen /\ match_method' = match_method
        /\ (pc = "tiebreak_b" /\ chosen = None) =>
              /\ chosen' # None <=> EstDobDecides(ident)
              /\ chosen' # None => match_method' = "name_plus_est_dob_unique"
        /\ (pc = "tiebreak_c" /\ chosen = None) =>
              /\ chosen' # None <=> EstYobDecides(ident)
              /\ chosen' # None => match_method' = "name_plus_est_yob_unique"
        /\ (pc = "tiebreak_c" /\ chosen' # None) =>
              mlbam_id' = chosen'[1] /\ match_status' = "matched_name_with_tiebreak"
      ]_vars

\* Organization overlap chose one candidate where the estimated DOB singles out another.
C8_Witness ==
    /\ pc = "rule4"
    /\ match_method = "name_plus_org_unique"
    /\ match_status = "matched_name_with_tiebreak"
    /\ Cardinality(EstDobSurvivors(ident, 45)) = 1
    /\ mlbam_id \notin EstDobSurvivors(ident, 45)

(***************************************************************************)
(* C9: the last-resort rule is attempted only if no id has been chosen;    *)
(* over the deduplicated candidates of index #4 (spine and ancillary) it   *)
(* applies the organization-overlap guard (only candidates with known      *)
(* organizations count) and then, only if that chose nothing, the          *)
(* first-initial guard; a guard chooses only when exactly one candidate    *)
(* passes; success sets status matched_lastname_plus_yob_est_unique and    *)
(* the method of the guard that fired.                                     *)
(***************************************************************************)
C9_LastResort ==
    \A n \in Rows :
        /\ Row(n).match_method \in Rule4Methods => LastResortLookupMade(Idn(n))
        /\ LastResortLookupMade(Idn(n)) =>
              IF Cardinality(GuardOrgSurvivors(Idn(n))) = 1
              THEN /\ Row(n).mlbam_id = The(GuardOrgSurvivors(Idn(n)))
                   /\ Row(n).match_method = "lastname_plus_yob_est_plus_org_unique"
                   /\ Row(n).match_status = "matched_lastname_plus_yob_est_unique"
              ELSE IF Cardinality(InitialSurvivors(Idn(n))) = 1
              THEN /\ Row(n).mlbam_id = The(InitialSurvivors(Idn(n)))
                   /\ Row(n).match_method = "lastname_plus_yob_est_plus_first_initial_unique"
                   /\ Row(n).match_status = "matched_lastname_plus_yob_est_unique"
              ELSE Row(n).mlbam_id = Empty

\* The organization guard ran and chose nothing, then the first-initial guard chose.
C9_Witness ==
    \E n \in Rows :
        /\ Row(n).match_method = "lastname_plus_yob_est_plus_first_initial_unique"
        /\ DeclaredOrgs(Idn(n)) # {}
        /\ \E c \in LastYobIds(Idn(n)) : KnownOrgs(c) # {}

(***************************************************************************)
(* C10: an identity no rule resolved is classified from the deduplicated   *)
(* union of the candidates of every rule attempted, the last-resort rule   *)
(* included: more than one gives ambiguous_multiple_candidates, none gives *)
(* unmatched_no_candidate.                                                 *)
(***************************************************************************)
AttemptedCandidates(idn) ==
    (IF CompleteDob(idn) THEN NameDobIds(idn) ELSE {})
    \cup (IF CompleteDob(idn) /\ ~Rule1Unique(idn) THEN LastDobIds(idn) ELSE {})
    \cup (IF NameLookupMade(idn) THEN NameIds(idn) ELSE {})
    \cup (IF LastResortLookupMade(idn) THEN LastYobIds(idn) ELSE {})

C10_ClassifiedFromAllRules ==
    \A n \in Rows :
        Row(n).mlbam_id = Empty =>
            /\ Cardinality(AttemptedCandidates(Idn(n))) > 1
                  => Row(n).match_status = "ambiguous_multiple_candidates"
            /\ Cardinality(AttemptedCandidates(Idn(n))) = 0
                  => Row(n).match_status = "unmatched_no_candidate"

(***************************************************************************)
(* C11: the candidate_mlbam_ids field of every output row is the           *)
(* pipe-joined, sorted, duplicate-free union of the candidate ids of every *)
(* rule attempted for the identity, rules 1 to 4, resolved or not.         *)
(***************************************************************************)
C11_CandidateListAllRules ==
    \A n \in Rows :
        Row(n).candidate_mlbam_ids = JoinWith(SortedSeq(AttemptedCandidates(Idn(n))), <<"|">>)

(***************************************************************************)
(* C12: an identity left unresolved (status ambiguous_multiple_candidates  *)
(* or unmatched_no_candidate) has an empty chosen id and an empty          *)
(* match_method.                                                           *)
(***************************************************************************)
UnresolvedStatuses == {"ambiguous_multiple_candidates", "unmatched_no_candidate"}

C12_UnresolvedEmptyMethod ==
    \A n \in Rows :
        Row(n).match_status \in UnresolvedStatuses
            => Row(n).mlbam_id = Empty /\ Row(n).match_method = ""

(***************************************************************************)
(* C12, amended: an identity left unresolved has an empty chosen id (in    *)
(* both id columns) and the match_method "none"; a resolved identity has   *)
(* the name of a rule, tie-break or guard as its match_method.             *)
(***************************************************************************)
C12_UnresolvedMethodNone ==
    \A n \in Rows :
        IF Row(n).match_status \in UnresolvedStatuses
        THEN /\ Row(n).mlbam_id = Empty
             /\ Row(n).matched_mlbam_id = Empty
             /\ Row(n).match_method = "none"
        ELSE /\ Row(n).mlbam_id # Empty
             /\ Row(n).match_method \in RuleMethods \cup TieBreakMethods \cup Rule4Methods

\* An ambiguous identity has been written.
C12_Witness ==
    \E n \in Rows :
        /\ Row(n).match_status = "ambiguous_multiple_candidates"
        /\ Cardinality(NameIds(Idn(n))) >= 2

(***************************************************************************)
(* C13: the display names "C.J. Smith", "C J Smith" and "CJ Smith" all     *)
(* produce the index #3 key "cj smith", so each of them finds a spine      *)
(* record whose first name is "CJ" and last name is "Smith".               *)
(***************************************************************************)
N_C_J_Smith == <<"C"," ","J"," ">> \o S_Smith

N_CJ_Smith == S_CJ \o <<" ">> \o S_Smith

InitialsNames == {N_CJSmith, N_C_J_Smith, N_CJ_Smith}

C13_LeadingInitialsKey ==
    \A n \in Rows :
        Idn(n).player_name \in InitialsNames =>
            /\ normalize_person_name_for_match(Idn(n).player_name) = Key_cj_smith
            /\ \A k \in DOMAIN spine :
                  (spine[k].name_first = S_CJ /\ spine[k].name_last = S_Smith)
                      => spine[k].mlbam_id \in NameIds(Idn(n))

(***************************************************************************)
(* C14: for every raw name, the index #3 key computed on the identity side *)
(* is the key under which a spine or ancillary record of the same name     *)
(* (first + " " + last) was indexed, and the normalizer is idempotent on   *)
(* every name and on every key of index #3.                                *)
(***************************************************************************)
SameName(name, first, last) == norm_space(name) = norm_space(first \o <<" ">> \o last)

KeyOf(name) == normalize_person_name_for_match(name)

C14_StableKey ==
    /\ \A n \in Rows :
          /\ KeyOf(KeyOf(Idn(n).player_name)) = KeyOf(Idn(n).player_name)
          /\ \A k \in DOMAIN spine :
                (SameName(Idn(n).player_name, spine[k].name_first, spine[k].name_last)
                    /\ KeyOf(Idn(n).player_name) # Empty)
                    => spine[k].mlbam_id
                          \in Range(DictGet(idx_full_name, <<KeyOf(Idn(n).player_name)>>, << >>))
          /\ \A k \in DOMAIN ancillary :
                (SameName(Idn(n).player_name, ancillary[k].first, ancillary[k].last)
                    /\ KeyOf(Idn(n).player_name) # Empty)
                    => ancillary[k].mlbam_id
                          \in Range(DictGet(idx_anc_full_name, <<KeyOf(Idn(n).player_name)>>, << >>))
    /\ \A key \in DOMAIN idx_full_name \cup DOMAIN idx_anc_full_name : KeyOf(key[1]) = key[1]

\* A name with capitals, punctuation, a doubled space and a trailing suffix was
\* resolved to the spine record that holds it cut into first and last.
C14_Witness ==
    \E n \in Rows :
        /\ Idn(n).player_name = <<"C",".","J","."," "," ">> \o Str_iii
        /\ \E k \in DOMAIN spine :
              /\ spine[k].name_last = Str_iii
              /\ SameName(Idn(n).player_name, spine[k].name_first, spine[k].name_last)
        /\ Row(n).mlbam_id = Id_700001

(***************************************************************************)
(* C15: normalization drops a suffix token exactly when it belongs to      *)
(* {jr, sr, ii, iii, iv, v, vi} and is the final token of the name: the    *)
(* final token is dropped if it is of the set, and no other token is.      *)
(***************************************************************************)
GenerationalSuffixes ==
    { <<"j","r">>, <<"s","r">>, <<"i","i">>, <<"i","i","i">>, <<"i","v">>, <<"v">>, <<"v","i">> }

\* The tokens of a name: casefolded, punctuation taken as a separator.
NameTokensOf(name) == SplitWs(PunctToSpace(Casefold(name)))

KeptTokens(name) == SplitWs(KeyOf(name))

InTrailingRun(toks, k) == \A j \in k..Len(toks) : toks[j] \in GenerationalSuffixes

Columns(file) == DOMAIN file[1][1]

NoRows(file) == file = None \/ file[1] = << >>

\* No row of the file has a value under one of the id columns cols.
NoUsableRow(file, cols) ==
    \A k \in DOMAIN file[1] : \A c \in cols \cap DOMAIN file[1][k] : file[1][k][c] = Empty

FirstNameColumns == {"name_first", "first_name", "First", "first"}

LastNameColumns == {"name_last", "last_name", "Last", "last"}

IdentitiesUnusable ==
    NoRows(identities_file)
    \/ ~({"identity_key", "fgid", "player_name", "player_url"} \subseteq Columns(identities_file))

SpineUnusable ==
    NoRows(spine_file)
    \/ "mlbam_id" \notin Columns(spine_file)
    \/ Columns(spine_file) \cap FirstNameColumns = {}
    \/ Columns(spine_file) \cap LastNameColumns = {}
    \/ NoUsableRow(spine_file, {"mlbam_id"})

AncillaryUnusable ==
    /\ ancillary_file # None
    /\ \/ ancillary_file[1] = << >>
       \/ ~({"MLBAM_ID", "First", "Last", "YOB", "MOB", "DOB"} \subseteq Columns(ancillary_file))
       \/ NoUsableRow(ancillary_file, {"MLBAM_ID"})

InputsUsable == ~IdentitiesUnusable /\ ~SpineUnusable /\ ~AncillaryUnusable

NothingBuiltOrWritten ==
    /\ idx_first_last_dob = EmptyDict /\ idx_last_dob = EmptyDict
    /\ idx_full_name = EmptyDict /\ idx_last_yob = EmptyDict
    /\ idx_anc_first_last_dob = EmptyDict /\ idx_anc_last_dob = EmptyDict
    /\ idx_anc_full_name = EmptyDict /\ idx_anc_last_yob = EmptyDict
    /\ yob_by_id = EmptyDict /\ dob_by_id = EmptyDict
    /\ orgs_by_id = EmptyDict /\ first_initial_by_id = EmptyDict
    /\ out_rows = << >> /\ manifest = None

(***************************************************************************)
(* C16: a malformed optional field never aborts the run: with usable input *)
(* files nothing raises; an estimated date of birth that does not parse    *)
(* gives no estimated-DOB decision, a non-numeric estimated year no        *)
(* estimated-YOB decision, and every identity still gets its outcome row.  *)
(***************************************************************************)
C16_MalformedFieldAbsorbed ==
    /\ InputsUsable => pc # "raised"
    /\ \A n \in Rows :
          /\ parse_date_ymd(Idn(n).dob_est_ymd) = None
                => Row(n).match_method # "name_plus_est_dob_unique"
          /\ ~IsNumeric(Idn(n).yob_est)
                => Row(n).match_method # "name_plus_est_yob_unique"
    /\ pc \notin {"read_identities", "read_spine", "read_ancillary", "index_spine",
                  "index_ancillary", "identity", "raised"} /\ ~InLoop
          => Len(out_rows) = Len(identities)

(***************************************************************************)
(* C17: if the identity file, the spine file or a present ancillary file   *)
(* lacks a required column or has zero rows (zero usable rows once the     *)
(* rows with an empty id are dropped), the run aborts while reading, in    *)
(* the order identities, spine, ancillary: no index or aux map has an      *)
(* entry and no outcome row or manifest is written.                        *)
(***************************************************************************)
C17_StructuralAbort ==
    /\ IdentitiesUnusable => pc \in {"read_identities", "raised"}
    /\ SpineUnusable => pc \in {"read_identities", "read_spine", "raised"}
    /\ AncillaryUnusable => pc \in {"read_identities", "read_spine", "read_ancillary", "raised"}
    /\ ~InputsUsable => NothingBuiltOrWritten

\* The identities were read, then the spine file held only rows without an id.
C17_Witness ==
    /\ pc = "raised"
    /\ identities # << >>
    /\ spine_file # None /\ spine_file[1] # << >>
    /\ NoUsableRow(spine_file, {"mlbam_id"})
    /\ NothingBuiltOrWritten

(***************************************************************************)
(* C18: with usable input files the run never raises; the outcome rows are *)
(* written one per identity in the order of the input identities, and the  *)
(* manifest is written after the last of them, when the run is done.       *)
(***************************************************************************)
C18_OneRowPerIdentityInOrder ==
    /\ InputsUsable => pc # "raised"
    /\ Len(out_rows) <= Len(identities)
    /\ \A n \in Rows : Row(n).identity_key = Idn(n).identity_key
                       /\ Row(n).player_name = Idn(n).player_name
    /\ pc \notin {"read_identities", "read_spine", "read_ancillary", "index_spine",
                  "index_ancillary", "identity", "raised"} /\ ~InLoop
          => Len(out_rows) = Len(identities)
    /\ manifest # None <=> pc \in {"done", "season_rows", "dedup", "season_done", "season_raised"}

(***************************************************************************)
(* C19: in the manifest, identities = matched + ambiguous + unmatched;     *)
(* every identity is counted under exactly the status written in its       *)
(* outcome row; the per-status counts sum to the number of identities; the *)
(* status breakdown is listed in ascending order of status name.           *)
(***************************************************************************)
RowsWithStatus(t) == {n \in Rows : Row(n).match_status = t}

RECURSIVE SumCounts(_)
SumCounts(breakdown) ==
    IF breakdown = << >> THEN 0 ELSE breakdown[1][2] + SumCounts(Tail(breakdown))

TagRank(t) == CHOOSE i \in DOMAIN StatusTags : StatusTags[i] = t

C19_ManifestCounts ==
    manifest # None =>
        LET man == manifest[1] IN
        /\ man.identities = Len(identities)
        /\ man.identities = man.matched + man.ambiguous + man.unmatched
        /\ man.matched = Cardinality({n \in Rows : Row(n).mlbam_id # Empty})
        /\ man.ambiguous = Cardinality(RowsWithStatus("ambiguous_multiple_candidates"))
        /\ man.unmatched = Cardinality(RowsWithStatus("unmatched_no_candidate"))
        /\ \A k \in DOMAIN man.breakdown :
              man.breakdown[k][2] = Cardinality(RowsWithStatus(man.breakdown[k][1]))
        /\ \A n \in Rows : \E k \in DOMAIN man.breakdown : man.breakdown[k][1] = Row(n).match_status
        /\ SumCounts(man.breakdown) = Len(identities)
        /\ \A k, l \in DOMAIN man.breakdown :
              k < l => TagRank(man.breakdown[k][1]) < TagRank(man.breakdown[l][1])

\* Three identities: an unmatched one first, then two ambiguous ones.
C19_Witness ==
    /\ manifest # None
    /\ Len(out_rows) = 3
    /\ Row(1).match_status = "unmatched_no_candidate"
    /\ Row(2).match_status = "ambiguous_multiple_candidates"
    /\ Row(3).match_status = "ambiguous_multiple_candidates"
    /\ manifest[1].breakdown = << <<"ambiguous_multiple_candidates", 2>>, <<"unmatched_no_candidate", 1>> >>

(***************************************************************************)
(* C20: resolving an identity writes nothing to the indexes or auxiliary   *)
(* maps and never changes a row already written, and an identity gets the  *)
(* same outcome row wherever it stands in the batch and whatever           *)
(* identities were resolved before it.                                     *)
(***************************************************************************)
SameOutcome(r1, r2) ==
    /\ r1.mlbam_id = r2.mlbam_id
    /\ r1.match_status = r2.match_status
    /\ r1.match_method = r2.match_method
    /\ r1.candidate_mlbam_ids = r2.candidate_mlbam_ids
    /\ r1.matched_mlbam_id = r2.matched_mlbam_id

C20_NoInterference ==
    /\ [][pc \notin {"index_spine", "index_ancillary"} =>
             /\ spine_indexes' = spine_indexes
             /\ anc_indexes' = anc_indexes
             /\ aux_maps' = aux_maps
             /\ \A n \in DOMAIN out_rows : out_rows'[n] = out_rows[n]]_vars
    /\ [](\A n, k \in Rows : Idn(n) = Idn(k) => SameOutcome(Row(n), Row(k)))

\* The same identity was resolved first and again after a different identity
\* that a rule resolved and that left candidates behind.
C20_Witness ==
    /\ Len(out_rows) = 3
    /\ Idn(1) = Idn(3)
    /\ Idn(2) # Idn(1)
    /\ Row(1).mlbam_id = Empty /\ Row(1).candidate_mlbam_ids = Empty
    /\ Row(2).mlbam_id # Empty /\ Row(2).candidate_mlbam_ids # Empty

(***************************************************************************)
(* C21: once the indexes are built, in each of the four index shapes an id *)
(* stands under a key if and only if some spine or ancillary record with   *)
(* that id has that key with every component non-empty: first and last     *)
(* name, year, month and day for #1; last name, year, month and day for    *)
(* #2; the full name for #3; last name and year for #4.  No empty id       *)
(* stands in any index.                                                    *)
(***************************************************************************)
IndexesBuilt ==
    pc \notin {"read_identities", "read_spine", "read_ancillary", "index_spine",
               "index_ancillary", "raised"}

\* The source records, spine and ancillary, under common field names.
SourceRecords ==
    {[id |-> spine[k].mlbam_id, first |-> spine[k].name_first, last |-> spine[k].name_last,
      y |-> Strip(spine[k].yob), m |-> Strip(spine[k].mob), d |-> Strip(spine[k].dob)] :
        k \in DOMAIN spine}
    \cup
    {[id |-> ancillary[k].mlbam_id, first |-> ancillary[k].first, last |-> ancillary[k].last,
      y |-> Strip(ancillary[k].yob), m |-> Strip(ancillary[k].mob), d |-> Strip(ancillary[k].dob)] :
        k \in DOMAIN ancillary}

\* The key a source record has in the index of a shape.
KeyOfShape(shape, r) ==
    CASE shape = 1 -> <<norm_text(r.first), norm_text(r.last), r.y, r.m, r.d>>
      [] shape = 2 -> <<norm_text(r.last), r.y, r.m, r.d>>
      [] shape = 3 -> <<normalize_person_name_for_match(r.first \o <<" ">> \o r.last)>>
      [] shape = 4 -> <<norm_text(r.last), r.y>>

AllNonEmpty(key) == \A k \in DOMAIN key : key[k] # Empty

\* The pairs <<key, id>> the spine and ancillary indexes of a shape hold.
Associations(shape) ==
    LET ix == spine_indexes[shape]
        ix_anc == anc_indexes[shape]
    IN  UNION {{<<key, id>> : id \in Range(ix[key])} : key \in DOMAIN ix}
        \cup UNION {{<<key, id>> : id \in Range(ix_anc[key])} : key \in DOMAIN ix_anc}

C21_IndexMembership ==
    IndexesBuilt =>
        \A shape \in 1..4 :
            /\ Associations(shape) =
                  {<<KeyOfShape(shape, r), r.id>> :
                      r \in {x \in SourceRecords : AllNonEmpty(KeyOfShape(shape, x))}}
            /\ \A a \in Associations(shape) : a[2] # Empty

\* A record with a year but no month or day stands in index #4 and not in #1 or
\* #2, next to a record with a complete date.
C21_Witness ==
    /\ IndexesBuilt
    /\ \E r \in SourceRecords :
          /\ r.y # Empty /\ r.m = Empty
          /\ \E a \in Associations(4) : a[2] = r.id
          /\ \A a \in Associations(2) : a[2] # r.id
    /\ Associations(1) # {}

(***************************************************************************)
(* C22: every rule looks its key up in the spine index and in the          *)
(* ancillary index of its shape and decides on the union: an id that a     *)
(* spine and an ancillary record, or duplicate rows, put under the same    *)
(* key counts once, and a rule whose candidate list repeats one single id  *)
(* fires with that id.                                                     *)
(***************************************************************************)
\* The ids the rules 1 to 3 attempted for idn found, spine and ancillary merged.
MergedCandidates(idn) ==
    (IF CompleteDob(idn) THEN NameDobIds(idn) ELSE {})
    \cup (IF CompleteDob(idn) /\ ~Rule1Unique(idn) THEN LastDobIds(idn) ELSE {})
    \cup (IF NameLookupMade(idn) THEN NameIds(idn) ELSE {})

C22_MergedIndexes ==
    /\ (InLoop /\ "exact_name_dob" \in DOMAIN candidates_by_rule)
          => Range(candidates_by_rule["exact_name_dob"]) = NameDobIds(ident)
    /\ (InLoop /\ "lastname_dob" \in DOMAIN candidates_by_rule)
          => Range(candidates_by_rule["lastname_dob"]) = LastDobIds(ident)
    /\ (InLoop /\ "name_only" \in DOMAIN candidates_by_rule)
          => Range(candidates_by_rule["name_only"]) = NameIds(ident)
    /\ (pc = "classify" /\ LastResortLookupMade(ident)) => Range(candidates) = LastYobIds(ident)
    /\ \A n \in Rows :
          /\ Rule1Unique(Idn(n)) =>
                /\ Row(n).mlbam_id = The(NameDobIds(Idn(n)))
                /\ Row(n).match_method = "exact_name_dob"
          /\ (~Rule1Unique(Idn(n)) /\ Rule2Unique(Idn(n))) =>
                /\ Row(n).mlbam_id = The(LastDobIds(Idn(n)))
                /\ Row(n).match_method = "lastname_dob"
          /\ (NameLookupMade(Idn(n)) /\ Cardinality(NameIds(Idn(n))) = 1) =>
                /\ Row(n).mlbam_id = The(NameIds(Idn(n)))
                /\ Row(n).match_method = "name_only_unique"
          /\ Row(n).candidate_mlbam_ids = JoinWith(SortedSeq(MergedCandidates(Idn(n))), <<"|">>)

\* A spine and an ancillary record put the same id under the key of the rule
\* that resolved the identity.
C22_Witness ==
    \E n \in Rows :
        LET fl == split_first_last_person(Idn(n).player_name)
            key == <<fl[1], fl[2], Strip(Idn(n).yob), Strip(Idn(n).mob), Strip(Idn(n).dob)>>
        IN  /\ Row(n).match_method = "exact_name_dob"
            /\ Row(n).mlbam_id \in Range(DictGet(idx_first_last_dob, key, << >>))
            /\ Row(n).mlbam_id \in Range(DictGet(idx_anc_first_last_dob, key, << >>))
            /\ Row(n).candidate_mlbam_ids = Row(n).mlbam_id

(***************************************************************************)
(* C23: an ancillary record never overrides what a spine record supplied.  *)
(* Indexing an ancillary record leaves a non-empty year of yob_by_id and a *)
(* parsed date of dob_by_id as they are, writes either map only for an id  *)
(* with no entry or an empty one, and leaves orgs_by_id alone; so for an   *)
(* id in both sources the maps end with the spine's non-empty year and the *)
(* spine's parsed date.                                                    *)
(***************************************************************************)
\* The last spine record of an id: the one whose values the spine loop leaves.
LastSpineRecord(id) ==
    spine[CHOOSE k \in DOMAIN spine :
             /\ spine[k].mlbam_id = id
             /\ \A j \in DOMAIN spine : spine[j].mlbam_id = id => j <= k]

SpineIds == {spine[k].mlbam_id : k \in DOMAIN spine}

AncillaryIds == {ancillary[k].mlbam_id : k \in DOMAIN ancillary}

SpineDate(s) ==
    IF Strip(s.yob) # Empty /\ Strip(s.mob) # Empty /\ Strip(s.dob) # Empty
    THEN parse_date_ymd(YmdString(Strip(s.yob), Strip(s.mob), Strip(s.dob)))
    ELSE None

C23_SpineValuesKept ==
    /\ [][pc = "index_ancillary" =>
             /\ \A id \in DOMAIN yob_by_id :
                   yob_by_id[id] # Empty => yob_by_id'[id] = yob_by_id[id]
             /\ \A id \in DOMAIN dob_by_id :
                   dob_by_id[id] # None => dob_by_id'[id] = dob_by_id[id]
             /\ orgs_by_id' = orgs_by_id]_vars
    /\ [](IndexesBuilt =>
             \A id \in SpineIds :
                 /\ Strip(LastSpineRecord(id).yob) # Empty
                       => yob_by_id[id] = Strip(LastSpineRecord(id).yob)
                 /\ SpineDate(LastSpineRecord(id)) # None
                       => dob_by_id[id] = SpineDate(LastSpineRecord(id))
                 /\ DOMAIN orgs_by_id \subseteq SpineIds)

\* An id of both sources: the ancillary record has another year, which is not
\* taken, and the date the spine record lacks, which fills the gap.
C23_Witness ==
    /\ IndexesBuilt
    /\ \E id \in SpineIds \cap AncillaryIds :
          \E k \in DOMAIN ancillary :
              /\ ancillary[k].mlbam_id = id
              /\ Strip(LastSpineRecord(id).yob) # Empty
              /\ ancillary[k].yob # Strip(LastSpineRecord(id).yob)
              /\ yob_by_id[id] = Strip(LastSpineRecord(id).yob)
              /\ SpineDate(LastSpineRecord(id)) = None
              /\ dob_by_id[id] # None

(***************************************************************************)
(* C24: first_initial_by_id is first-writer-wins.  No indexing step        *)
(* changes an initial already recorded, and once the indexes are built the *)
(* initial of an id is the first character of the normalized first name of *)
(* the first record of that id, spine records before ancillary ones, that  *)
(* has a non-empty first name.                                             *)
(***************************************************************************)
\* The <<id, first name>> of the records in the order they are indexed.
IndexedInOrder ==
    [k \in DOMAIN spine |-> <<spine[k].mlbam_id, spine[k].name_first>>]
    \o [k \in DOMAIN ancillary |-> <<ancillary[k].mlbam_id, ancillary[k].first>>]

\* The positions of the records of an id that have a first name.
NamedRecords(id) ==
    {k \in DOMAIN IndexedInOrder :
        IndexedInOrder[k][1] = id /\ norm_text(IndexedInOrder[k][2]) # Empty}

FirstNamedRecord(id) == CHOOSE k \in NamedRecords(id) : \A j \in NamedRecords(id) : k <= j

C24_FirstInitialFirstWriter ==
    /\ [][(pc = "index_spine" \/ pc = "index_ancillary") =>
             (\A id \in DOMAIN first_initial_by_id :
                 first_initial_by_id'[id] = first_initial_by_id[id])]_vars
    /\ [](IndexesBuilt =>
             /\ DOMAIN first_initial_by_id = {id \in SpineIds \cup AncillaryIds : NamedRecords(id) # {}}
             /\ \A id \in DOMAIN first_initial_by_id :
                   first_initial_by_id[id] =
                       <<norm_text(IndexedInOrder[FirstNamedRecord(id)][2])[1]>>)

\* The first record of an id has no first name, a later one supplies the
\* initial, and a record after that one has another initial.
C24_Witness ==
    /\ IndexesBuilt
    /\ \E id \in DOMAIN first_initial_by_id :
          /\ \E k \in DOMAIN IndexedInOrder :
                /\ IndexedInOrder[k][1] = id
                /\ k < FirstNamedRecord(id)
          /\ \E k \in NamedRecords(id) :
                /\ k > FirstNamedRecord(id)
                /\ <<norm_text(IndexedInOrder[k][2])[1]>> # first_initial_by_id[id]

(***************************************************************************)
(* C25: the year the last-resort rule looks up in index #4 is the          *)
(* identity's yob_est when that is a 4-digit number and otherwise the year *)
(* of its parsed estimated date of birth; no other value is that key, and  *)
(* with neither available the rule is not attempted.                       *)
(***************************************************************************)
FourDigitYear(s) == IsNumeric(Strip(s)) /\ Len(Strip(s)) = 4

\* None, or Some(year) by the preference above.
EstimatedYear(idn) ==
    IF FourDigitYear(idn.yob_est) THEN Some(Strip(idn.yob_est))
    ELSE IF parse_date_ymd(idn.dob_est_ymd) # None
         THEN Some(IntToStr(parse_date_ymd(idn.dob_est_ymd)[1]))
         ELSE None

\* The ids index #4 holds for the last name of idn and a year.
LastYearIds(idn, year) ==
    IdsUnder(idx_last_yob, idx_anc_last_yob, <<split_first_last(idn.player_name)[2], year>>)

C25_LastResortYear ==
    /\ (pc = "classify" /\ candidates # << >>) =>
          /\ EstimatedYear(ident) # None
          /\ Range(candidates) = LastYearIds(ident, EstimatedYear(ident)[1])
    /\ \A n \in Rows :
          Row(n).match_method \in Rule4Methods =>
              /\ EstimatedYear(Idn(n)) # None
              /\ Row(n).mlbam_id \in LastYearIds(Idn(n), EstimatedYear(Idn(n))[1])

(***************************************************************************)
(* C26: exact_name_dob and lastname_dob are attempted only for an identity *)
(* whose year, month and day of birth are all non-empty.  For an identity  *)
(* with a partial or missing date they look nothing up and contribute no   *)
(* candidates, and its resolution starts at the name-only rule.            *)
(***************************************************************************)
DateRules == {"exact_name_dob", "lastname_dob"}

C26_DateRulesNeedCompleteDob ==
    /\ (InLoop /\ ~CompleteDob(ident)) =>
          /\ DOMAIN candidates_by_rule \cap DateRules = {}
          /\ pc \in {"rule1", "rule2", "rule3"} =>
                mlbam_id = Empty /\ candidates_by_rule = EmptyDict
    /\ \A n \in Rows :
          ~CompleteDob(Idn(n)) =>
              /\ Row(n).match_method \notin DateRules
              /\ Cardinality(NameIds(Idn(n))) = 1 =>
                    /\ Row(n).mlbam_id = The(NameIds(Idn(n)))
                    /\ Row(n).match_method = "name_only_unique"

\* An identity with a year and a month but no day, whose last name, year and
\* month are those of a spine record, is resolved by the name-only rule.
C26_Witness ==
    \E n \in Rows :
        /\ Strip(Idn(n).yob) # Empty /\ Strip(Idn(n).mob) # Empty /\ Strip(Idn(n).dob) = Empty
        /\ Row(n).match_method = "name_only_unique"
        /\ \E k \in DOMAIN spine :
              /\ spine[k].mlbam_id = Row(n).mlbam_id
              /\ spine[k].yob = Strip(Idn(n).yob) /\ spine[k].mob = Strip(Idn(n).mob)

(***************************************************************************)
(* C27: the season de-duplication emits exactly one output row for each    *)
(* (mlbam_id, report_year) key that has a mapped season row; the row kept  *)
(* is a minimum of the rows of that key under the policy: a row with an    *)
(* fgid before a row without, then the later published_date, then the      *)
(* smaller rk, then the smaller identity_key; rows whose identity_key has  *)
(* no mapped id are counted as unmapped and never emitted.                 *)
(***************************************************************************)
\* The season rows the step reads, and those whose identity has an id.
SeasonRowsRead == iter_season_rows(seasons_file).rows

MappedId(sr) == DictGet(id_map, sr.identity_key, Empty)

MappedSeasonRows == {sr \in Range(SeasonRowsRead) : MappedId(sr) # Empty}

SeasonKey(sr) == <<MappedId(sr), sr.report_year>>

\* The instant a is later than the instant b, each <<seconds, milliseconds>>.
Later(a, b) == a[1] > b[1] \/ (a[1] = b[1] /\ a[2] > b[2])

\* The policy puts r strictly before c.  Where one of two rows has no
\* published_date or no rk the policy does not say, and nothing is asked.
Preferred(r, c) ==
    LET dr == parse_isoish_date(r.published_date)
        dc == parse_isoish_date(c.published_date)
    IN  IF (r.fgid # Empty) # (c.fgid # Empty) THEN r.fgid # Empty
        ELSE IF (dr = None) # (dc = None) THEN FALSE
        ELSE IF dr # dc THEN Later(dr[1], dc[1])
        ELSE IF (r.rk = None) # (c.rk = None) THEN FALSE
        ELSE IF r.rk # c.rk THEN r.rk[1] < c.rk[1]
        ELSE StrBefore(r.identity_key, c.identity_key)

C27_SeasonDedup ==
    pc = "season_done" =>
        /\ {<<season_out[k].mlbam_id, parse_int(season_out[k].report_year)>> : k \in DOMAIN season_out}
              = {<<SeasonKey(sr)[1], Some(SeasonKey(sr)[2])>> : sr \in MappedSeasonRows}
        /\ Len(season_out) = Cardinality({SeasonKey(sr) : sr \in MappedSeasonRows})
        /\ Len(chosen_by_key) = Len(season_out)
        /\ \A k \in DOMAIN chosen_by_key :
              LET key == chosen_by_key[k][1]
                  kept == chosen_by_key[k][2]
              IN  /\ kept \in MappedSeasonRows /\ SeasonKey(kept) = key
                  /\ \A r \in MappedSeasonRows : SeasonKey(r) = key => ~Preferred(r, kept)
                  /\ \E j \in DOMAIN season_out :
                        /\ season_out[j].mlbam_id = key[1]
                        /\ season_out[j] = OutputRow(key, kept)
        /\ season_stats.unmapped = Len(SeasonRowsRead) - season_stats.mapped
        /\ season_stats.mapped =
              Len(SelectSeq(SeasonRowsRead, LAMBDA sr : MappedId(sr) # Empty))


(***************************************************************************)
(* C28: an identity is never left unresolved when the deduplicated union   *)
(* of the candidates returned by rules 1 to 3 has exactly one element:     *)
(* every row with status unmatched_no_candidate has an empty               *)
(* candidate_mlbam_ids field and every row with status                     *)
(* ambiguous_multiple_candidates lists at least two distinct ids.          *)
(***************************************************************************)
\* The ids listed in the candidate_mlbam_ids field of row n.
ListedIds(n) == {x \in Range(SplitOn(Row(n).candidate_mlbam_ids, "|")) : x # Empty}

C28_SingletonNeverUnresolved ==
    \A n \in Rows :
        /\ Cardinality(MergedCandidates(Idn(n))) = 1 =>
              /\ Row(n).match_status \notin UnresolvedStatuses
              /\ Row(n).mlbam_id # Empty
        /\ Row(n).match_status = "unmatched_no_candidate" =>
              /\ Row(n).candidate_mlbam_ids = Empty
              /\ MergedCandidates(Idn(n)) = {}
        /\ Row(n).match_status = "ambiguous_multiple_candidates" =>
              /\ Cardinality(ListedIds(n)) >= 2
              /\ Cardinality(MergedCandidates(Idn(n))) >= 2

\* An identity with a complete date of birth that rules 1 and 2 found nobody
\* for, and whose name belongs to one single record, has been written.
C28_Witness ==
    \E n \in Rows :
        /\ CompleteDob(Idn(n))
        /\ NameDobIds(Idn(n)) = {} /\ LastDobIds(Idn(n)) = {}
        /\ Cardinality(MergedCandidates(Idn(n))) = 1
        /\ Row(n).mlbam_id = The(NameIds(Idn(n)))


(***************************************************************************)
(* C29: in every output row mlbam_id equals matched_mlbam_id; mlbam_id is  *)
(* non-empty exactly when match_status is one of the matched_* statuses;   *)
(* and status and method go together: each of the rules 1 to 3 has the     *)
(* method of its own name, matched_name_with_tiebreak has one of the three *)
(* tie-break methods, matched_lastname_plus_yob_est_unique has one of the  *)
(* two guard methods, and both unresolved statuses have the same method.   *)
(***************************************************************************)
MatchedStatuses ==
    {"matched_exact_name_dob", "matched_lastname_dob", "matched_name_only_unique",
     "matched_name_with_tiebreak", "matched_lastname_plus_yob_est_unique"}

\* The methods that go with a status.
MethodsOf(status) ==
    CASE status = "matched_exact_name_dob" -> {"exact_name_dob"}
      [] status = "matched_lastname_dob" -> {"lastname_dob"}
      [] status = "matched_name_only_unique" -> {"name_only_unique"}
      [] status = "matched_name_with_tiebreak" -> TieBreakMethods
      [] status = "matched_lastname_plus_yob_est_unique" -> Rule4Methods
      [] status = "ambiguous_multiple_candidates" -> {"none"}
      [] status = "unmatched_no_candidate" -> {"none"}
      [] OTHER -> {}

C29_StatusMethodPairing ==
    \A n \in Rows :
        /\ Row(n).mlbam_id = Row(n).matched_mlbam_id
        /\ Row(n).mlbam_id # Empty <=> Row(n).match_status \in MatchedStatuses
        /\ Row(n).match_status \in MatchedStatuses \cup UnresolvedStatuses
        /\ Row(n).match_method \in MethodsOf(Row(n).match_status)

\* The estimated year of birth chose among several records of one name.
C29_Witness ==
    \E n \in Rows :
        /\ Row(n).match_status = "matched_name_with_tiebreak"
        /\ Row(n).match_method = "name_plus_est_yob_unique"
        /\ Row(n).matched_mlbam_id \in NameIds(Idn(n))
        /\ Cardinality(NameIds(Idn(n))) >= 2


(***************************************************************************)
(* C30: the last-resort rule never resolves on the uniqueness of its       *)
(* candidate set alone: even when index #4 returns exactly one id for      *)
(* (last name, estimated year), that id is chosen only if the              *)
(* organization-overlap guard or the first-initial guard selects it; an    *)
(* identity with no declared organizations and no first-initial agreement  *)
(* stays unresolved.                                                       *)
(***************************************************************************)
\* Index #4 returns exactly one id for idn.
SoleLastYobCandidate(idn) == LastResortLookupMade(idn) /\ Cardinality(LastYobIds(idn)) = 1

C30_GuardsOnly ==
    \A n \in Rows :
        LastResortLookupMade(Idn(n)) =>
            /\ Row(n).mlbam_id # Empty =>
                  \/ GuardOrgSurvivors(Idn(n)) = {Row(n).mlbam_id}
                  \/ InitialSurvivors(Idn(n)) = {Row(n).mlbam_id}
            /\ (DeclaredOrgs(Idn(n)) = {} /\ InitialSurvivors(Idn(n)) = {}) =>
                  /\ Row(n).mlbam_id = Empty
                  /\ Row(n).match_status \in UnresolvedStatuses

\* Index #4 returned one single id, the identity declares no organization and
\* the id's first initial is another: the identity stayed unresolved.
C30_Witness ==
    \E n \in Rows :
        /\ SoleLastYobCandidate(Idn(n))
        /\ DeclaredOrgs(Idn(n)) = {}
        /\ FirstInitialOf(Idn(n)) # Empty
        /\ InitialSurvivors(Idn(n)) = {}
        /\ Row(n).mlbam_id = Empty

====
